---- MODULE Spec2Model ----
(***************************************************************************)
(* Arx Libertatis (PS Vita port): the OpenGL renderer's state cache        *)
(* (OpenGLRenderer.cpp) and the OpenGL capability query (OpenGLUtil.cpp).  *)
(*                                                                         *)
(* SpecRenderer drives the renderer: reinit, the pipeline-state mutators,  *)
(* Clear, SetAntialiasing, SetViewport, SetScissor and flushState.         *)
(* SpecInfo drives OpenGLInfo: override registration and has().            *)
(* SpecParse drives the constructor of OpenGLInfo and parseOverrideConfig.  *)
(* SpecWindow drives Window and SDL2Window: listeners, the event filter,   *)
(* processEvents, updateSize and changeMode; SpecMode adds the failures of  *)
(* changeMode, the game as a listener and the destructor.                  *)
(* SpecGame drives ArxGame::run over the window, SpecPacing the frame      *)
(* limiter of ArxGame::doFrame, SpecCreation SDL2Window::initialize up to  *)
(* the creation of the window and the GL context.                          *)
(* SpecDisplay drives the display modes of initializeFramework, SpecVSync  *)
(* setVSync and SpecGamma setGamma and restoreGamma over a platform whose   *)
(* calls can fail.  SpecBuffers drives createVertexBufferImpl and          *)
(* SpecTouch the finger events and update of the Vita input backend.       *)
(***************************************************************************)
EXTENDS Integers, Sequences, FiniteSets, TLC

(***************************************************************************)
(* Bounds of the model.                                                    *)
(***************************************************************************)
\* renderer operations between two flushState calls
MaxPending == 1
\* fields among cull, fog, depth test, depth write and depth offset that a desired
\* state sets away from the default at the same time
MaxNonDefault == 1
\* length of the extension-override list
MaxOverrides == 3
\* tokens the two override strings hold together
MaxTokens == 2
\* listeners registered with the window
MaxListeners == 2
\* events waiting in SDL's queue
MaxQueue == 2
\* frames paced in a run of the frame limiter
MaxFrames == 3
\* events waiting in the queue of the game's window
MaxWaiting == 1
\* highest m_maxMSAALevel the window is configured with
MaxMSAA == 2

(***************************************************************************)
(* Program constants.                                                      *)
(***************************************************************************)
FuzzyAlphaCutoutAA == 1
CrispAlphaCutoutAA == 2
\* std::numeric_limits<s32>::max(), the "no version override" sentinel
NoVersionOverride == 2147483647
\* std::chrono::microseconds(1s): durations are in microseconds
Second == 1000000
\* the frame rate doFrame assumes for a display of unknown refresh rate
FallbackFps == 60
\* Default::fpsLimit
DefaultFpsLimit == -1
\* setMinTextureUnits(3) in ArxGame::initWindow
MinTextureUnits == 3
\* what createWindowAndGLContext returns in the Vita build: "MSAA2x"
VitaSamples == 2
\* m_gamma(1.f), in tenths
DefaultGamma == 10
\* gamma ramps are named by a number: the ramp SDL_SetWindowBrightness(gamma) sets
\* by gamma in tenths, the ramp the display had before by 0, and what the arrays
\* m_gammaRed, m_gammaGreen and m_gammaBlue hold before they are first filled by -1
SystemRamp == 0
NoRamp == -1

VARIABLES
  \* ---- OpenGLRenderer ----
  initialized,          \* isInitialized(): the texture stages exist
  m_state,              \* desired render state
  m_glstate,            \* applied render state (the cache)
  m_glsampleShading,    \* cached GL_SAMPLE_SHADING enable
  m_glalphaToCoverage,  \* cached GL_SAMPLE_ALPHA_TO_COVERAGE enable
  m_glalphaFunc,        \* cached alpha-test reference, in tenths: -10, 0, 5
  m_glblendSrc,         \* cached glBlendFunc source factor
  m_glblendDst,         \* cached glBlendFunc destination factor
  m_MSAALevel,          \* samples of the framebuffer
  m_hasMSAA,            \* multisampling currently enabled
  m_hasSampleShading,   \* capability flag computed by initialize()
  config,               \* config.video: antialiasing, alphaCutoutAntialiasing
  maxTextureStage,      \* highest texture stage in use
  viewport,             \* Renderer::viewport
  m_scissor,            \* current scissor rectangle
  gpu,                  \* the pipeline state the GL context really has
  calls,                \* pipeline-state GL entry points called by the last operation
  stageApplies,         \* GLTextureStage::apply() calls of the last operation
  pending,              \* operations since the last flushState
  flushRun,             \* consecutive flushState calls, counted up to 2
  \* ---- OpenGLInfo ----
  m_version,            \* native version, major*10+minor
  m_versionOverride,    \* version override threshold
  m_extensionOverrides, \* sequence of [sign, ext] entries, oldest first
  detected,             \* extensions the native query reports
  query,                \* the last has(ext, version) call and its result
  \* ---- OpenGLInfo::OpenGLInfo and parseOverrideConfig ----
  pc,                   \* where the constructor is: workarounds, config, cmdline, done
  first,                \* parseOverrideConfig's local "first"
  log,                  \* the entries and tokens seen so far: the token, where it came
                        \* from and the version override after it
  \* ---- Window and SDL2Window ----
  platform,             \* the build: which branch of beforeResize is compiled in
  s_mainWindow,         \* initializeFramework has run: the event filter is installed
  m_window,             \* the SDL window exists
  listeners,            \* m_listeners: what each listener's onCloseWindow returns
  m_fullscreen,         \* cached fullscreen flag
  m_mode,               \* cached display mode: resolution and refresh
  nativeFullscreen,     \* the SDL window is fullscreen
  nativeSize,           \* what SDL_GetWindowSize reports
  queue,                \* SDL's event queue, oldest first
  draining,             \* processEvents is running its loop
  fired,                \* listener callbacks of the last step: <<listener, callback>>
  resizeCalls,          \* the calls of the last step to the renderer, to the
                        \* platform and to the renderer's listener, in order
  toInput,              \* the event the last step handed to m_input->onEvent
  failed,               \* the platform call that made the last step's changeMode fail
  game,                 \* ArxGame: m_MainWindow, m_RunLoop, m_bReady, GRenderer, the
                        \* dynamic vertex buffers, whether it listens, where run
                        \* is, config.video.fpsLimit and vsync, m_frameDelta and
                        \* what the frame limiter last did
  m_visible,            \* Window::m_visible
  m_minimized,          \* Window::m_minimized
  sdl,                  \* the platform: the display modes it reports, the gamma ramp
                        \* of the display, whether the ramp can be read and the
                        \* brightness set, the swap intervals it accepts and the
                        \* one in effect, the gamma and swap interval calls of the
                        \* last operation of the window, whether the ramp of the
                        \* display is one this window set and the ramp before it
                        \* did
  m_displayModes,       \* the display modes the window exposes
  gamma,                \* m_gamma, m_gammaOverridden and the ramp saved in
                        \* m_gammaRed, m_gammaGreen and m_gammaBlue
  m_vsync,              \* cached swap interval
  returned,             \* what the last setGamma or setVSync call returned
  creation,             \* SDL2Window::initialize up to the creation of the window:
                        \* the build, m_maxMSAALevel, m_minTextureUnits, the calls
                        \* of createWindowAndGLContext still to make, m_glcontext,
                        \* the native windows and contexts that exist, where the
                        \* code is, msaa, the levels tried and samples
  buffers,              \* vertex buffers: m_hasMapBuffer, m_hasMapBufferRange and
                        \* m_hasBufferStorage, the static warned of each
                        \* instantiation of createVertexBufferImpl, the warnings
                        \* logged, and the last call with its result
  touch                 \* the Vita input backend: whether it receives events yet,
                        \* the fingers on each touch device, numFingers, clickCount
                        \* and unclickCount, currentClickCount and
                        \* currentUnclickCount; and for each button the clicks less
                        \* the unclicks made for fingers since numFingers was 0

rvars == <<initialized, m_state, m_glstate, m_glsampleShading, m_glalphaToCoverage,
           m_glalphaFunc, m_glblendSrc, m_glblendDst, m_MSAALevel, m_hasMSAA,
           m_hasSampleShading, config, maxTextureStage, viewport, m_scissor,
           gpu, calls, stageApplies, pending, flushRun>>
ivars == <<m_version, m_versionOverride, m_extensionOverrides, detected, query>>
pvars == <<pc, first, log>>
wvars == <<platform, s_mainWindow, m_window, listeners, m_fullscreen, m_mode,
           nativeFullscreen, nativeSize, queue, draining, fired, resizeCalls, toInput,
           failed, game, m_visible, m_minimized, creation, sdl, m_displayModes,
           gamma, m_vsync, returned, buffers, touch>>
\* the vertex buffers and the input backend
xvars == <<buffers, touch>>
\* what only initializeFramework and the calls of setVSync and setGamma from
\* outside the window write, and what the window leaves alone
dvars == <<m_displayModes, returned, xvars>>
vars == <<rvars, ivars, pvars, wvars>>

(***************************************************************************)
(* Vertex buffers: createVertexBufferImpl.                                 *)
(***************************************************************************)
\* the vertex types createVertexBufferImpl is instantiated for (lines 852-865)
VertexTypes == {"TexturedVertex", "SMY_VERTEX", "SMY_VERTEX3"}
Usages == {"Static", "Dynamic", "Stream"}
\* config.video.bufferUpload: the empty default, names the code knows (of the
\* names with +subdata one) and a name it does not know
BufferUploads ==
  {"", "persistent-orphan", "persistent-x3", "persistent-x2", "persistent-nosync",
   "maprange", "maprange+subdata", "map", "shadow", "dsa"}
Capabilities == [mapBuffer : BOOLEAN, mapBufferRange : BOOLEAN, bufferStorage : BOOLEAN]
\* warnings logged for a vertex type before the model stops making buffers of it
MaxWarnings == 2

\* the renderer as constructed (lines 65-67), before any buffer is made
NoBuffers ==
  [caps |-> [mapBuffer |-> FALSE, mapBufferRange |-> FALSE, bufferStorage |-> FALSE],
   warned |-> [v \in VertexTypes |-> FALSE],
   warnings |-> [v \in VertexTypes |-> 0],
   last |-> [vertex |-> "", usage |-> "", setting |-> "", buffer |-> "", depth |-> 0,
             logged |-> FALSE,
             caps |-> [mapBuffer |-> FALSE, mapBufferRange |-> FALSE,
                       bufferStorage |-> FALSE]]]

\* what a call returns: the buffer, the static warned after it, whether it logged
\* the warning, and how many times it called itself
made(buffer, warned, logged, depth) ==
  [buffer |-> buffer, warned |-> warned, logged |-> logged, depth |-> depth]

\* line 838: the test before the warning
warns(matched, warned) == ~matched /\ ~warned

RECURSIVE createVertexBufferImpl(_, _, _, _, _, _)
\* createVertexBufferImpl with a setting (lines 776-843)
createVertexBufferImpl(caps, usage, setting, warned, logged, depth) ==
  LET empty == setting = ""
      storage == caps.mapBufferRange /\ caps.bufferStorage
      orphan == storage /\ (empty \/ setting = "persistent-orphan")
      x3 == storage /\ (empty \/ setting = "persistent-x3")
      x2 == storage /\ (empty \/ setting = "persistent-x2")
      nosync == storage /\ setting = "persistent-nosync"
      matched == orphan \/ x3 \/ x2 \/ nosync
  IN IF orphan /\ usage # "Static"
       THEN made("GLPersistentOrphanVertexBuffer", warned, logged, depth)
     ELSE IF x3 /\ usage = "Stream"
       THEN made("GLPersistentFenceVertexBuffer(3)", warned, logged, depth)
     ELSE IF x2 /\ usage = "Stream"
       THEN made("GLPersistentFenceVertexBuffer(2)", warned, logged, depth)
     ELSE IF nosync /\ usage # "Static"
       THEN made("GLPersistentUnsynchronizedVertexBuffer", warned, logged, depth)
     ELSE IF caps.mapBufferRange
             /\ (empty \/ setting \in {"maprange", "maprange+subdata"})
       THEN made("GLMapRangeVertexBuffer", warned, logged, depth)
     ELSE IF caps.mapBuffer /\ (empty \/ setting \in {"map", "map+subdata"})
       THEN made("GLMapVertexBuffer", warned, logged, depth)
     ELSE IF empty \/ setting \in {"shadow", "shadow+subdata"}
       THEN made("GLShadowVertexBuffer", warned, logged, depth)
     ELSE createVertexBufferImpl(caps, usage, "", warned \/ warns(matched, warned),
                                 logged \/ warns(matched, warned), depth + 1)

(***************************************************************************)
(* The Vita input backend: fingers as mouse buttons.                       *)
(***************************************************************************)
\* fingers on a touch device at the same time
MaxFingers == 2
\* clicks or unclicks of a button that wait for update, and clicks of a button
\* ahead of or behind its unclicks
MaxClicks == 2
TouchDevices == {0, 1}
Buttons == {0, 1}
NoClicks == [b \in Buttons |-> 0]

\* no input backend yet and no finger on a touch device
NoTouch ==
  [attached |-> FALSE, held |-> [d \in TouchDevices |-> 0], missed |-> 0,
   numFingers |-> 0, clickCount |-> NoClicks, unclickCount |-> NoClicks,
   currentClickCount |-> NoClicks, currentUnclickCount |-> NoClicks,
   balance |-> NoClicks]

\* clickCount[button]++ or unclickCount[button]++ for a finger; balance starts
\* again when numFingers was 0
click(t, button) ==
  [t EXCEPT !.clickCount[button] = @ + 1,
            !.balance = [(IF t.numFingers = 0 THEN NoClicks ELSE @)
                           EXCEPT ![button] = @ + 1]]
unclick(t, button) ==
  [t EXCEPT !.unclickCount[button] = @ + 1,
            !.balance = [(IF t.numFingers = 0 THEN NoClicks ELSE @)
                           EXCEPT ![button] = @ - 1]]

\* SDL2InputBackend::onEvent, case SDL_FINGERDOWN (lines 618-633)
fingerDown(t, touchId) ==
  IF touchId = 0
    THEN [(IF t.numFingers = 0 THEN click(t, 0) ELSE click(t, 1))
            EXCEPT !.numFingers = @ + 1]
    ELSE t

\* case SDL_FINGERUP (lines 635-644)
fingerUp(t, touchId) ==
  IF touchId = 0
    THEN [(IF t.numFingers = 1 THEN unclick(t, 0)
           ELSE IF t.numFingers > 1 THEN unclick(t, 1)
           ELSE t)
            EXCEPT !.numFingers = @ - 1]
    ELSE t

\* SDL2InputBackend::update (lines 370-403), the click counts
update(t) ==
  [t EXCEPT !.currentClickCount = t.clickCount,
            !.currentUnclickCount = t.unclickCount,
            !.clickCount = NoClicks,
            !.unclickCount = NoClicks]

(***************************************************************************)
(* Render state.                                                           *)
(***************************************************************************)
\* the (source, destination) blend pairs the model draws from: opaque, additive,
\* alpha, premultiplied alpha and invisible blending
BlendPairs ==
  {<<"BlendOne", "BlendZero">>, <<"BlendOne", "BlendOne">>,
   <<"BlendSrcAlpha", "BlendInvSrcAlpha">>, <<"BlendOne", "BlendInvSrcAlpha">>,
   <<"BlendZero", "BlendOne">>}

arxToGlBlendFactor(f) ==
  CASE f = "BlendZero" -> "GL_ZERO"
    [] f = "BlendOne" -> "GL_ONE"
    [] f = "BlendSrcColor" -> "GL_SRC_COLOR"
    [] f = "BlendSrcAlpha" -> "GL_SRC_ALPHA"
    [] f = "BlendInvSrcColor" -> "GL_ONE_MINUS_SRC_COLOR"
    [] f = "BlendInvSrcAlpha" -> "GL_ONE_MINUS_SRC_ALPHA"
    [] f = "BlendSrcAlphaSaturate" -> "GL_SRC_ALPHA_SATURATE"
    [] f = "BlendDstColor" -> "GL_DST_COLOR"
    [] f = "BlendDstAlpha" -> "GL_DST_ALPHA"
    [] f = "BlendInvDstColor" -> "GL_ONE_MINUS_DST_COLOR"
    [] f = "BlendInvDstAlpha" -> "GL_ONE_MINUS_DST_ALPHA"

Configs == [antialiasing : BOOLEAN, alphaCutoutAntialiasing : 0..CrispAlphaCutoutAA]

\* the sample counts the window can end up with: ArxGame asks for multisampling
\* only when config.video.antialiasing is set, and the driver may still refuse it
MSAALevels(cfg) == IF cfg.antialiasing THEN {0, 4} ELSE {0}
\* the depth offsets the model draws from: flushState only compares the desired
\* offset with the applied one and hands its negation to glPolygonOffset
DepthOffsets == {0, 1}
Rects == {"invalid", "rect"}
Viewports == {"full", "half"}

\* the pipeline state of a freshly created GL context
GLDefaults ==
  [cull |-> FALSE, fog |-> FALSE, sampleShading |-> FALSE, alphaToCoverage |-> FALSE,
   alphaFunc |-> <<"GL_ALWAYS", 0>>, blendSrc |-> "GL_ONE", blendDst |-> "GL_ZERO",
   depthFunc |-> "GL_LESS", depthMask |-> TRUE, polygonOffset |-> 0,
   multisample |-> TRUE]

\* the GL entry points that set pipeline state
PipelineCalls ==
  {"GL_CULL_FACE", "GL_FOG", "GL_SAMPLE_SHADING", "GL_SAMPLE_ALPHA_TO_COVERAGE",
   "glAlphaFunc", "glBlendFunc", "glDepthFunc", "glDepthMask", "glPolygonOffset"}

(***************************************************************************)
(* flushState (OpenGLRenderer.cpp 930-1060).  A "core" record c carries    *)
(* what flushState reads and writes: st (m_state), gl (m_glstate), ss, a2c,*)
(* af, bs, bd (the m_gl* caches), gpu and calls.                           *)
(***************************************************************************)
UseSS(hasMSAA, hasSS, cfg) ==
  hasMSAA /\ hasSS /\ cfg.alphaCutoutAntialiasing = CrispAlphaCutoutAA

UseA2C(hasMSAA, cfg) ==
  hasMSAA /\ cfg.alphaCutoutAntialiasing = FuzzyAlphaCutoutAA

\* arx_assert_msg of flushState: inverted alpha blending with alpha test
CutoutBlendAllowed(st) ==
  st.alphaCutout => (st.blendSrc # "BlendInvSrcAlpha" /\ st.blendDst # "BlendSrcAlpha")

\* mutant: alpha-to-coverage also chosen while blending
AlphaTestModeA2CWhileBlending(st, useSS, useA2C) ==
  IF ~st.alphaCutout THEN "TestNone"
  ELSE IF st.blendSrc = "BlendOne" /\ st.blendDst = "BlendOne"
    THEN "TestConservative"
  ELSE IF st.blendSrc = "BlendSrcAlpha" \/ st.blendDst = "BlendInvSrcAlpha"
    THEN "TestConservative"
  ELSE (IF useSS THEN "TestSS" ELSE IF useA2C THEN "TestA2C" ELSE "TestStrict")

AlphaTestMode(st, useSS, useA2C) ==
  IF ~st.alphaCutout THEN "TestNone"
  ELSE IF st.blendSrc = "BlendOne" /\ st.blendDst = "BlendZero"
    THEN (IF useSS THEN "TestSS" ELSE IF useA2C THEN "TestA2C" ELSE "TestStrict")
  ELSE IF st.blendSrc = "BlendOne" /\ st.blendDst = "BlendOne"
    THEN "TestConservative"
  ELSE IF st.blendSrc = "BlendSrcAlpha" \/ st.blendDst = "BlendInvSrcAlpha"
    THEN "TestConservative"
  ELSE (IF useSS THEN "TestSS" ELSE "TestStrict")

\* the local blendSrc after the additive-blend rewrite
DerivedBlendSrc(st) ==
  IF st.alphaCutout /\ st.blendSrc = "BlendOne" /\ st.blendDst = "BlendOne"
    THEN "BlendSrcAlpha"
    ELSE st.blendSrc

\* the alpha reference (tenths) flushState wants cached for a test mode
AlphaRefOf(alphaTest) ==
  CASE alphaTest = "TestNone" -> -10
    [] alphaTest \in {"TestConservative", "TestA2C"} -> 0
    [] OTHER -> 5

\* the glAlphaFunc arguments that go with a cached reference
AlphaFuncOf(ref) == IF ref < 0 THEN <<"GL_ALWAYS", 0>> ELSE <<"GL_GREATER", ref>>

AlphaFuncStale(af, alphaTest) ==
  IF alphaTest = "TestNone" THEN af >= 0 ELSE af # AlphaRefOf(alphaTest)

\* mutant: glBlendFunc re-issued on every pass through the block
BlendFuncAlwaysStale(bs, bd, glbs, glbd) == TRUE

BlendFuncStale(bs, bd, glbs, glbd) == bs # glbs \/ bd # glbd

\* line 932
StateDiffers(gl, st) == gl # st

\* lines 950-952
BlendOrCutoutDiffers(gl, st) ==
  \/ gl.blendSrc # st.blendSrc
  \/ gl.blendDst # st.blendDst
  \/ gl.alphaCutout # st.alphaCutout

\* mutant: the flush forgets to record the cull flag it applied
AppliedAfterFlushDropsCull(st) == [st EXCEPT !.cull = FALSE]

\* line 1053
AppliedAfterFlush(st) == st

FlushCullFog(c) ==
  LET cullCall == c.gl.cull # c.st.cull
      fogCall == c.gl.fog # c.st.fog
  IN [c EXCEPT
        !.gpu = [c.gpu EXCEPT !.cull = IF cullCall THEN c.st.cull ELSE @,
                              !.fog = IF fogCall THEN c.st.fog ELSE @],
        !.calls = @ \cup (IF cullCall THEN {"GL_CULL_FACE"} ELSE {})
                    \cup (IF fogCall THEN {"GL_FOG"} ELSE {})]

FlushAlphaBlend(c, useSS, useA2C) ==
  LET alphaTest == AlphaTestMode(c.st, useSS, useA2C)
      ssCall == (c.ss /\ alphaTest # "TestSS") \/ (~c.ss /\ alphaTest = "TestSS")
      a2cCall == (c.a2c /\ alphaTest # "TestA2C") \/ (~c.a2c /\ alphaTest = "TestA2C")
      afCall == AlphaFuncStale(c.af, alphaTest)
      glbs == arxToGlBlendFactor(DerivedBlendSrc(c.st))
      glbd == arxToGlBlendFactor(c.st.blendDst)
      blendCall == BlendFuncStale(c.bs, c.bd, glbs, glbd)
  IN [c EXCEPT
        !.ss = IF ssCall THEN alphaTest = "TestSS" ELSE @,
        !.a2c = IF a2cCall THEN alphaTest = "TestA2C" ELSE @,
        !.af = IF afCall THEN AlphaRefOf(alphaTest) ELSE @,
        !.bs = IF blendCall THEN glbs ELSE @,
        !.bd = IF blendCall THEN glbd ELSE @,
        !.gpu = [c.gpu EXCEPT
                   !.sampleShading = IF ssCall THEN alphaTest = "TestSS" ELSE @,
                   !.alphaToCoverage = IF a2cCall THEN alphaTest = "TestA2C" ELSE @,
                   !.alphaFunc = IF afCall THEN AlphaFuncOf(AlphaRefOf(alphaTest)) ELSE @,
                   !.blendSrc = IF blendCall THEN glbs ELSE @,
                   !.blendDst = IF blendCall THEN glbd ELSE @],
        !.calls = @ \cup (IF ssCall THEN {"GL_SAMPLE_SHADING"} ELSE {})
                    \cup (IF a2cCall THEN {"GL_SAMPLE_ALPHA_TO_COVERAGE"} ELSE {})
                    \cup (IF afCall THEN {"glAlphaFunc"} ELSE {})
                    \cup (IF blendCall THEN {"glBlendFunc"} ELSE {})]

FlushDepth(c) ==
  LET testCall == c.gl.depthTest # c.st.depthTest
      writeCall == c.gl.depthWrite # c.st.depthWrite
      offsetCall == c.gl.depthOffset # c.st.depthOffset
  IN [c EXCEPT
        !.gpu = [c.gpu EXCEPT
                   !.depthFunc = IF testCall
                                   THEN (IF c.st.depthTest THEN "GL_LEQUAL" ELSE "GL_ALWAYS")
                                   ELSE @,
                   !.depthMask = IF writeCall THEN c.st.depthWrite ELSE @,
                   !.polygonOffset = IF offsetCall THEN 0 - c.st.depthOffset ELSE @],
        !.calls = @ \cup (IF testCall THEN {"glDepthFunc"} ELSE {})
                    \cup (IF writeCall THEN {"glDepthMask"} ELSE {})
                    \cup (IF offsetCall THEN {"glPolygonOffset"} ELSE {})]

\* OpenGLRenderer::flushState without the texture-stage loop
flushState(c, hasMSAA, hasSS, cfg) ==
  IF StateDiffers(c.gl, c.st)
    THEN LET c1 == FlushCullFog(c)
             c2 == IF BlendOrCutoutDiffers(c.gl, c.st)
                     THEN FlushAlphaBlend(c1, UseSS(hasMSAA, hasSS, cfg), UseA2C(hasMSAA, cfg))
                     ELSE c1
             c3 == FlushDepth(c2)
         IN [c3 EXCEPT !.gl = AppliedAfterFlush(c.st)]
    ELSE c

\* the core record of the current state, with no call issued yet
Core ==
  [st |-> m_state, gl |-> m_glstate, ss |-> m_glsampleShading,
   a2c |-> m_glalphaToCoverage, af |-> m_glalphaFunc, bs |-> m_glblendSrc,
   bd |-> m_glblendDst, gpu |-> gpu, calls |-> {}]

\* write a core record back, except m_state
StoreCore(c) ==
  /\ m_glstate' = c.gl
  /\ m_glsampleShading' = c.ss
  /\ m_glalphaToCoverage' = c.a2c
  /\ m_glalphaFunc' = c.af
  /\ m_glblendSrc' = c.bs
  /\ m_glblendDst' = c.bd
  /\ gpu' = c.gpu
  /\ calls' = c.calls

(***************************************************************************)
(* Renderer operations.                                                    *)
(***************************************************************************)
\* desired state of a newly constructed Renderer
DefaultRenderState ==
  [cull |-> FALSE, fog |-> FALSE, depthTest |-> FALSE, depthWrite |-> TRUE,
   depthOffset |-> 0, blendSrc |-> "BlendOne", blendDst |-> "BlendZero",
   alphaCutout |-> FALSE]

\* the applied state reinit() records
ReinitBlendSrc == "BlendZero"
ReinitBlendDst == "BlendOne"
ReinitAppliedState ==
  [cull |-> FALSE, fog |-> FALSE, depthTest |-> FALSE, depthWrite |-> TRUE,
   depthOffset |-> 0, blendSrc |-> ReinitBlendSrc, blendDst |-> ReinitBlendDst,
   alphaCutout |-> FALSE]

InitRenderer ==
  /\ initialized = FALSE
  /\ buffers = NoBuffers
  /\ m_state = DefaultRenderState
  /\ m_glstate = DefaultRenderState
  /\ m_glsampleShading = FALSE
  /\ m_glalphaToCoverage = FALSE
  /\ m_glalphaFunc = 0
  /\ m_glblendSrc = "GL_ONE"
  /\ m_glblendDst = "GL_ZERO"
  /\ m_MSAALevel = 0
  /\ m_hasMSAA = FALSE
  /\ m_hasSampleShading \in BOOLEAN
  /\ config \in Configs
  /\ maxTextureStage = 0
  /\ viewport = "full"
  /\ m_scissor = "invalid"
  /\ gpu = GLDefaults
  /\ calls = {}
  /\ stageApplies = 0
  /\ pending = 0
  /\ flushRun = 0

\* what stays as it is in every operation but reinit
RendererConfigUnchanged ==
  UNCHANGED <<initialized, m_MSAALevel, m_hasSampleShading, config, maxTextureStage,
              ivars, pvars, wvars>>

\* mutant: Clear switches the depth mask on without recording it
ClearDepthWriteUnrecorded(c) ==
  IF ~c.gl.depthWrite
    THEN [c EXCEPT !.gpu = [c.gpu EXCEPT !.depthMask = TRUE],
                   !.calls = @ \cup {"glDepthMask"}]
    ELSE c

\* the depth-mask part of Clear (lines 648-653)
ClearDepthWrite(c) ==
  IF ~c.gl.depthWrite
    THEN [c EXCEPT !.gpu = [c.gpu EXCEPT !.depthMask = TRUE],
                   !.gl = [c.gl EXCEPT !.depthWrite = TRUE],
                   !.calls = @ \cup {"glDepthMask"}]
    ELSE c

\* OpenGLRenderer::Clear: of the pipeline state only the depth mask is touched,
\* and only when the depth buffer is cleared
Clear(c, flags) ==
  IF "DepthBuffer" \in flags THEN ClearDepthWrite(c) ELSE c

\* what OpenGLRenderer::reinit does to the renderer on the freshly created context
ReinitContext ==
  /\ \E level \in MSAALevels(config) :
       LET c0 == [st |-> m_state, gl |-> ReinitAppliedState, ss |-> FALSE, a2c |-> FALSE,
                  af |-> -10, bs |-> "GL_ONE", bd |-> "GL_ZERO",
                  gpu |-> [GLDefaults EXCEPT
                             !.multisample = IF level > 0 THEN FALSE ELSE @,
                             !.depthFunc = "GL_ALWAYS"],
                  calls |-> {"glDepthFunc"}]
           c == Clear(c0, {"ColorBuffer", "DepthBuffer"})
       IN /\ m_MSAALevel' = level
          /\ StoreCore(c)
  /\ m_hasMSAA' = FALSE
  /\ initialized' = TRUE
  /\ stageApplies' = 0
  /\ pending' = 0
  /\ flushRun' = 0
  /\ UNCHANGED <<m_state, m_hasSampleShading, config, maxTextureStage, m_scissor>>

\* OpenGLRenderer::reinit, called on a renderer that is not initialized
Reinit ==
  /\ ~initialized
  /\ ReinitContext
  /\ UNCHANGED <<viewport, ivars, pvars, wvars>>

\* how many of the blend-independent fields differ from the default
NonDefaultCount(st) ==
  Cardinality({f \in {"cull", "fog", "depthTest", "depthWrite", "depthOffset"} :
                 st[f] # DefaultRenderState[f]})

\* a pipeline-state mutator: writes one field of the desired state
Mutate(st) ==
  /\ initialized
  /\ pending < MaxPending
  /\ NonDefaultCount(st) <= MaxNonDefault
  /\ st # m_state
  /\ m_state' = st
  /\ pending' = pending + 1
  /\ calls' = {}
  /\ stageApplies' = 0
  /\ flushRun' = 0
  /\ RendererConfigUnchanged
  /\ UNCHANGED <<m_glstate, m_glsampleShading, m_glalphaToCoverage, m_glalphaFunc,
                 m_glblendSrc, m_glblendDst, m_hasMSAA, viewport, m_scissor, gpu>>

SetCull(b) == Mutate([m_state EXCEPT !.cull = b])
SetFog(b) == Mutate([m_state EXCEPT !.fog = b])
SetDepthTest(b) == Mutate([m_state EXCEPT !.depthTest = b])
SetDepthWrite(b) == Mutate([m_state EXCEPT !.depthWrite = b])
SetDepthOffset(n) == Mutate([m_state EXCEPT !.depthOffset = n])
SetBlend(src, dst) == Mutate([m_state EXCEPT !.blendSrc = src, !.blendDst = dst])
SetAlphaCutout(b) == Mutate([m_state EXCEPT !.alphaCutout = b])

\* OpenGLRenderer::flushState, called before a draw
FlushState ==
  /\ initialized
  /\ CutoutBlendAllowed(m_state)
  /\ StoreCore(flushState(Core, m_hasMSAA, m_hasSampleShading, config))
  /\ stageApplies' = maxTextureStage + 1
  /\ pending' = 0
  /\ flushRun' = IF flushRun < 2 THEN flushRun + 1 ELSE 2
  /\ RendererConfigUnchanged
  /\ UNCHANGED <<m_state, m_hasMSAA, viewport, m_scissor>>

\* OpenGLRenderer::Clear
DoClear(flags) ==
  /\ initialized
  /\ pending < MaxPending
  /\ pending' = pending + 1
  /\ StoreCore(Clear(Core, flags))
  /\ stageApplies' = 0
  /\ flushRun' = 0
  /\ RendererConfigUnchanged
  /\ UNCHANGED <<m_state, m_hasMSAA, viewport, m_scissor>>

\* the early returns of SetAntialiasing (lines 709-719)
AntialiasingIgnored(enable) ==
  \/ m_MSAALevel <= 0
  \/ (enable /\ ~config.antialiasing)
  \/ enable = m_hasMSAA

\* mutant: SetAntialiasing keeps the flushed cutout state
KeepFlushedCutout(c) == c

\* the flush SetAntialiasing does with alpha cutout cleared (lines 723-728)
ClearFlushedCutout(c) ==
  IF c.gl.alphaCutout
    THEN flushState([c EXCEPT !.st = [c.st EXCEPT !.alphaCutout = FALSE]],
                    m_hasMSAA, m_hasSampleShading, config)
    ELSE c

\* OpenGLRenderer::SetAntialiasing
SetAntialiasing(enable) ==
  /\ initialized
  /\ pending < MaxPending
  /\ pending' = pending + 1
  /\ IF AntialiasingIgnored(enable)
       THEN /\ calls' = {}
            /\ stageApplies' = 0
            /\ UNCHANGED <<m_glstate, m_glsampleShading, m_glalphaToCoverage,
                           m_glalphaFunc, m_glblendSrc, m_glblendDst, gpu, m_hasMSAA>>
       ELSE LET c == ClearFlushedCutout(Core)
            IN /\ StoreCore([c EXCEPT !.gpu = [c.gpu EXCEPT !.multisample = enable],
                                      !.calls = @ \cup {"GL_MULTISAMPLE"}])
               /\ stageApplies' = IF m_glstate.alphaCutout THEN maxTextureStage + 1 ELSE 0
               /\ m_hasMSAA' = enable
  /\ flushRun' = 0
  /\ RendererConfigUnchanged
  /\ UNCHANGED <<m_state, viewport, m_scissor>>

\* OpenGLRenderer::SetViewport
SetViewport(v) ==
  /\ initialized
  /\ pending < MaxPending
  /\ pending' = pending + 1
  /\ viewport' = v
  /\ calls' = {}
  /\ stageApplies' = 0
  /\ flushRun' = 0
  /\ RendererConfigUnchanged
  /\ UNCHANGED <<m_state, m_glstate, m_glsampleShading, m_glalphaToCoverage,
                 m_glalphaFunc, m_glblendSrc, m_glblendDst, m_hasMSAA, m_scissor,
                 gpu>>

\* OpenGLRenderer::SetScissor
SetScissor(rect) ==
  /\ initialized
  /\ pending < MaxPending
  /\ pending' = pending + 1
  /\ m_scissor' = rect
  /\ calls' = {}
  /\ stageApplies' = 0
  /\ flushRun' = 0
  /\ RendererConfigUnchanged
  /\ UNCHANGED <<m_state, m_glstate, m_glsampleShading, m_glalphaToCoverage,
                 m_glalphaFunc, m_glblendSrc, m_glblendDst, m_hasMSAA, viewport,
                 gpu>>

NextRenderer ==
  \/ Reinit
  \/ \E b \in BOOLEAN : SetCull(b)
  \/ \E b \in BOOLEAN : SetFog(b)
  \/ \E b \in BOOLEAN : SetDepthTest(b)
  \/ \E b \in BOOLEAN : SetDepthWrite(b)
  \/ \E n \in DepthOffsets : SetDepthOffset(n)
  \/ \E p \in BlendPairs : SetBlend(p[1], p[2])
  \/ \E b \in BOOLEAN : SetAlphaCutout(b)
  \/ FlushState
  \/ \E flags \in SUBSET {"ColorBuffer", "DepthBuffer"} : DoClear(flags)
  \/ \E enable \in BOOLEAN : SetAntialiasing(enable)

\* the blend factors a frame switches between: opaque and alpha-blended geometry
FrameBlendPairs ==
  {<<"BlendOne", "BlendZero">>, <<"BlendSrcAlpha", "BlendInvSrcAlpha">>}

NextRendererFrame ==
  \/ Reinit
  \/ \E b \in BOOLEAN : SetCull(b)
  \/ \E b \in BOOLEAN : SetFog(b)
  \/ \E b \in BOOLEAN : SetDepthTest(b)
  \/ \E b \in BOOLEAN : SetDepthWrite(b)
  \/ \E n \in DepthOffsets : SetDepthOffset(n)
  \/ \E p \in FrameBlendPairs : SetBlend(p[1], p[2])
  \/ \E b \in BOOLEAN : SetAlphaCutout(b)
  \/ FlushState
  \/ \E flags \in SUBSET {"ColorBuffer", "DepthBuffer"} : DoClear(flags)
  \/ \E enable \in BOOLEAN : SetAntialiasing(enable)
  \/ \E v \in Viewports : SetViewport(v)
  \/ \E rect \in Rects : SetScissor(rect)

(***************************************************************************)
(* OpenGLInfo (OpenGLUtil.cpp).  An override entry is <<sign, name>>: the  *)
(* first character of the stored token and the rest of it.                 *)
(***************************************************************************)
Extensions == {"GL_ARB_sample_shading", "GL_ARB_texture_non_power_of_two"}
Signs == {"+", "-"}
\* native versions, the versions has() is asked about, and version tokens
NativeVersions == {14, 21, 40}
QueryVersions == {0, 21, 30, 44}
TokenVersions == {21, 30}

\* mutant: a native version equal to the asked one counts as too old
DetectionFailedOnEqual(version, det, extension, minVersion) ==
  version <= minVersion /\ extension \notin det

\* lines 182-191: the native version is too old and the native query fails
DetectionFailed(version, det, extension, minVersion) ==
  version < minVersion /\ extension \notin det

RECURSIVE ScanForward(_, _, _)
\* mutant: the list scanned oldest-first
ScanForward(overrides, i, extension) ==
  IF i > Len(overrides) THEN "none"
  ELSE IF overrides[i][2] = extension THEN overrides[i][1]
  ELSE ScanForward(overrides, i + 1, extension)

RECURSIVE ScanReverse(_, _, _)
\* lines 193-203: the loop over the reversed list, from entry i downwards
ScanReverse(overrides, i, extension) ==
  IF i = 0 THEN "none"
  ELSE IF overrides[i][2] = extension THEN overrides[i][1]
  ELSE ScanReverse(overrides, i - 1, extension)

\* mutant of ScanOverrides
ScanOverridesOldestFirst(overrides, extension) == ScanForward(overrides, 1, extension)

\* the sign of the first match of the most-recent-first scan, or "none"
ScanOverrides(overrides, extension) == ScanReverse(overrides, Len(overrides), extension)

\* mutant: the threshold itself does not qualify
VersionFallbackStrict(versionOverride, minVersion) == versionOverride > minVersion

\* lines 205-210
VersionFallback(versionOverride, minVersion) == versionOverride >= minVersion

\* mutant: a "+" entry still has to pass the version override
hasPlusNeedsVersion(version, det, overrides, versionOverride, extension, minVersion) ==
  IF DetectionFailed(version, det, extension, minVersion) THEN FALSE
  ELSE IF ScanOverrides(overrides, extension) = "-" THEN FALSE
  ELSE VersionFallback(versionOverride, minVersion)

\* mutant: a sufficient native version answers before the overrides are read
hasNativeFirst(version, det, overrides, versionOverride, extension, minVersion) ==
  IF version >= minVersion THEN TRUE
  ELSE IF extension \notin det THEN FALSE
  ELSE LET sign == ScanOverrides(overrides, extension)
       IN IF sign = "+" THEN TRUE
          ELSE IF sign = "-" THEN FALSE
          ELSE VersionFallback(versionOverride, minVersion)

\* OpenGLInfo::has (lines 180-212)
has(version, det, overrides, versionOverride, extension, minVersion) ==
  IF DetectionFailed(version, det, extension, minVersion) THEN FALSE
  ELSE LET sign == ScanOverrides(overrides, extension)
       IN IF sign = "+" THEN TRUE
          ELSE IF sign = "-" THEN FALSE
          ELSE VersionFallback(versionOverride, minVersion)

NoQuery == [ext |-> "none", version |-> 0, result |-> FALSE]

InitInfo ==
  /\ m_version \in NativeVersions
  /\ m_versionOverride = NoVersionOverride
  /\ m_extensionOverrides = <<>>
  /\ detected \in SUBSET Extensions
  /\ query = NoQuery
  /\ pc = "done"
  /\ first = TRUE
  /\ log = <<>>

\* an entry appended to the override list: the constructor's workarounds
\* (lines 100, 122) and the +GL_/-GL_ tokens of parseOverrideConfig (135-137)
RegisterOverride(sign, extension) ==
  /\ Len(m_extensionOverrides) < MaxOverrides
  /\ m_extensionOverrides' = Append(m_extensionOverrides, <<sign, extension>>)
  /\ query' = NoQuery
  /\ UNCHANGED <<m_version, m_versionOverride, detected, rvars, pvars, wvars>>

\* a version token of parseOverrideConfig (lines 139-170): the version override
\* is set and the override list cleared.  "+*" gives NoVersionOverride, "-*" the
\* native version, a number that number.
VersionToken(value) ==
  /\ m_versionOverride' = value
  /\ m_extensionOverrides' = <<>>
  /\ query' = NoQuery
  /\ UNCHANGED <<m_version, detected, rvars, pvars, wvars>>

\* a call of has(extension, minVersion)
QueryHas(extension, minVersion) ==
  /\ query' = [ext |-> extension, version |-> minVersion,
               result |-> has(m_version, detected, m_extensionOverrides,
                              m_versionOverride, extension, minVersion)]
  /\ UNCHANGED <<m_version, m_versionOverride, m_extensionOverrides, detected, rvars,
                 pvars, wvars>>

NextInfo ==
  \/ \E sign \in Signs, extension \in Extensions : RegisterOverride(sign, extension)
  \/ \E value \in TokenVersions \cup {NoVersionOverride, m_version} : VersionToken(value)
  \/ \E extension \in Extensions, minVersion \in QueryVersions : QueryHas(extension, minVersion)

(***************************************************************************)
(* OpenGLInfo::OpenGLInfo (lines 95-128) and parseOverrideConfig (132-176).*)
(* A token is the sequence of its characters.  The constructor registers   *)
(* its workarounds, parses config.video.extensionOverride and then the     *)
(* --override-gl string; each string is read one token per step of the     *)
(* loop at line 134.                                                       *)
(***************************************************************************)
Digits == <<"0", "1", "2", "3", "4", "5", "6", "7", "8", "9">>

IsDigit(c) == \E i \in 1..10 : Digits[i] = c

DigitValue(c) == (CHOOSE i \in 1..10 : Digits[i] = c) - 1

RECURSIVE DecimalValue(_)
DecimalValue(str) ==
  IF str = <<>> THEN 0
  ELSE DecimalValue(SubSeq(str, 1, Len(str) - 1)) * 10 + DigitValue(str[Len(str)])

\* util::toInt(...).value_or(-1): the value of a non-empty string of decimal
\* digits; anything else has no value, or a negative one, and ends up below 0
toInt(str) ==
  IF str # <<>> /\ \A i \in 1..Len(str) : IsDigit(str[i])
    THEN DecimalValue(str) ELSE -1

\* boost::starts_with
StartsWith(token, prefix) ==
  Len(token) >= Len(prefix) /\ SubSeq(token, 1, Len(prefix)) = prefix

\* token.find('.', offset): the position of the first dot behind the offset,
\* counted from 1, or 0 for npos
FindDot(token, offset) ==
  IF \E i \in (offset + 1)..Len(token) : token[i] = "."
    THEN CHOOSE i \in (offset + 1)..Len(token) :
           token[i] = "." /\ \A j \in (offset + 1)..(i - 1) : token[j] # "."
    ELSE 0

ExtPlusPrefix == <<"+", "G", "L", "_">>
ExtMinusPrefix == <<"-", "G", "L", "_">>
GLPrefix == <<"G", "L">>

\* line 135
IsExtensionToken(token) ==
  StartsWith(token, ExtPlusPrefix) \/ StartsWith(token, ExtMinusPrefix)

\* s32(std::numeric_limits<u32>::max() / 10)
MaxMajor == 429496729

\* line 149, the minor part
MinorRejected(minor) == minor < 0 \/ minor > 10

\* mutant: "-*" taken for "+*"
PinnedToUnconstrained(version) == NoVersionOverride

\* line 145
PinnedVersion(version) == version

\* lines 140-165: the version a token that is no extension entry stands for, or
\* -1 where the code throws
VersionOfToken(token, version) ==
  LET offset == IF StartsWith(token, GLPrefix) THEN 2 ELSE 0
      dot == FindDot(token, offset)
      rest == SubSeq(token, offset + 1, Len(token))
  IN IF token = <<"+", "*">> \/ token = <<"+">> THEN NoVersionOverride
     ELSE IF token = <<"-", "*">> \/ token = <<"-">> THEN PinnedVersion(version)
     ELSE IF dot # 0
       THEN LET major == toInt(SubSeq(token, offset + 1, dot - 1))
                minor == toInt(SubSeq(token, dot + 1, Len(token)))
            IN IF MinorRejected(minor) \/ major < 0 \/ major > MaxMajor
                 THEN -1 ELSE major * 10 + minor
     ELSE IF Len(token) - offset > 1
       THEN LET n == toInt(rest)
            IN IF n < 0 THEN -1 ELSE n
     ELSE LET major == toInt(rest)
          IN IF major < 0 \/ major > MaxMajor THEN -1
             ELSE major * 10

\* the entry emplace_back(token) stores: its first character and the rest
EntryOf(token) == <<token[1], SubSeq(token, 2, Len(token))>>

\* mutant: the list cleared only by the first token of a string
ClearedByFirstTokenOnly(overrides, isFirst) == IF isFirst THEN <<>> ELSE overrides

\* line 169
ClearedByVersionToken(overrides, isFirst) == <<>>

\* mutant: an extension token starts the list afresh
ExtensionTokenReplaces(overrides, token) == <<EntryOf(token)>>

\* line 136
ExtensionTokenAppended(overrides, token) == Append(overrides, EntryOf(token))

\* mutant: a rejected token still clears the list
RejectedTokenClears(st) == [st EXCEPT !.overrides = <<>>]

\* lines 171-173: the catch block only logs
RejectedToken(st) == st

\* one pass through the loop body (lines 135-174) on the state
\* st = [versionOverride, overrides, first]
parseToken(st, token, version) ==
  IF IsExtensionToken(token)
    THEN [st EXCEPT !.overrides = ExtensionTokenAppended(st.overrides, token),
                    !.first = FALSE]
    ELSE LET value == VersionOfToken(token, version)
         IN IF value < 0
              THEN RejectedToken(st)
              ELSE [versionOverride |-> value,
                    overrides |-> ClearedByVersionToken(st.overrides, st.first),
                    first |-> FALSE]

\* the tokens the override strings are made of
ExtensionTokens == {<<"+", "G", "L", "_", "F", "O", "O">>, <<"-", "G", "L", "_", "B", "A", "R">>}
VersionTokens ==
  {<<"4", ".", "2">>,
   <<"4", ".", "1", "0">>,
   <<"5", ".", "0">>,
   <<"G", "L", "3", ".", "0">>,
   <<"2", "1">>,
   <<"3">>,
   <<"+", "*">>,
   <<"-", "*">>,
   <<"+">>,
   <<"-">>}
MalformedTokens == {<<"4", ".", "x">>, <<"4", ".", "1", "1">>, <<"G", "L">>}
Tokens == ExtensionTokens \cup VersionTokens \cup MalformedTokens

NpotWorkaround == <<"-", "G", "L", "_", "A", "R", "B", "_", "t", "e", "x", "t", "u", "r", "e", "_", "n", "o", "n", "_", "p", "o", "w", "e", "r", "_", "o", "f", "_", "t", "w", "o">>
SampleShadingWorkaround == <<"-", "G", "L", "_", "A", "R", "B", "_", "s", "a", "m", "p", "l", "e", "_", "s", "h", "a", "d", "i", "n", "g">>

InitParse ==
  /\ m_version \in NativeVersions
  /\ m_versionOverride = NoVersionOverride
  /\ m_extensionOverrides = <<>>
  /\ detected = {}
  /\ query = NoQuery
  /\ pc = "workarounds"
  /\ first = TRUE
  /\ log = <<>>

\* lines 95-123: the built-in workarounds, each registered or not as the driver
\* is; the first one only below OpenGL 3.0
ConstructorWorkarounds(npot, intel) ==
  /\ pc = "workarounds"
  /\ npot => m_version < 30
  /\ LET registered == (IF npot THEN <<NpotWorkaround>> ELSE <<>>)
                        \o (IF intel THEN <<SampleShadingWorkaround>> ELSE <<>>)
     IN /\ m_extensionOverrides' = [i \in 1..Len(registered) |-> EntryOf(registered[i])]
        /\ log' = [i \in 1..Len(registered) |->
                     [token |-> registered[i], parse |-> "workarounds",
                      versionOverride |-> m_versionOverride]]
  /\ pc' = "config"
  /\ first' = TRUE
  /\ UNCHANGED <<m_version, m_versionOverride, detected, query, rvars, wvars>>

\* how many tokens the strings have given so far
TokensRead == Cardinality({i \in 1..Len(log) : log[i].parse # "workarounds"})

\* the loop of parseOverrideConfig takes the next token of its string
ParseToken(token) ==
  /\ pc \in {"config", "cmdline"}
  /\ TokensRead < MaxTokens
  /\ LET st == parseToken([versionOverride |-> m_versionOverride,
                           overrides |-> m_extensionOverrides,
                           first |-> first], token, m_version)
     IN /\ m_versionOverride' = st.versionOverride
        /\ m_extensionOverrides' = st.overrides
        /\ first' = st.first
        /\ log' = Append(log, [token |-> token, parse |-> pc,
                               versionOverride |-> st.versionOverride])
  /\ UNCHANGED <<m_version, detected, query, pc, rvars, wvars>>

\* the string is at its end: parseOverrideConfig returns (lines 126-129)
EndOfString ==
  /\ pc \in {"config", "cmdline"}
  /\ pc' = IF pc = "config" THEN "cmdline" ELSE "done"
  /\ first' = TRUE
  /\ UNCHANGED <<m_version, m_versionOverride, m_extensionOverrides, detected, query,
                 log, rvars, wvars>>

NextParse ==
  \/ \E npot \in BOOLEAN, intel \in BOOLEAN : ConstructorWorkarounds(npot, intel)
  \/ \E token \in Tokens : ParseToken(token)
  \/ EndOfString

(***************************************************************************)
(* Window and SDL2Window: listeners, the close veto, the event drain,      *)
(* updateSize and changeMode.                                              *)
(***************************************************************************)
\* ARX_PLATFORM as beforeResize sees it: "linux" stands for Linux, BSD, Haiku and
\* the Vita (no re-initialization), "other" re-initializes always.  The Windows
\* build re-initializes when beforeResize is told of a fullscreen window; every
\* caller passes false, which makes it behave as "linux", so it is not drawn.
Platforms == {"linux", "other"}

\* window sizes; 0 is Vec2i(0), "use the desktop mode"
Sizes == {1, 2}
NoSize == 0
DefaultSize == 1
DesktopSize == 2
\* refresh rate of the display; 0 is "unknown"
DisplayRefresh == 60
NoRefresh == 0
\* what SDL_GetCurrentDisplayMode gives updateSize: the call succeeds
Refreshes == {DisplayRefresh}
\* the modes setFullscreenMode is called with: the desktop mode (Vec2i(0), no
\* refresh rate) or a mode of the display, which has a refresh rate
RequestedModes ==
  {[resolution |-> NoSize, refresh |-> NoRefresh]}
    \cup [resolution : Sizes, refresh : Refreshes]

\* how a requested resolution is written in the record of a step
ResolutionName(size) ==
  CASE size = NoSize -> "Vec2i(0)"
    [] size = DefaultSize -> "DefaultSize"
    [] OTHER -> "DesktopSize"

\* the events delivered: SDL_QUIT and the window events MOVED and SIZE_CHANGED
EventTypes == {"quit", "moved", "size"}
\* an SDL event; size is the new size a size-changed event carries
Event(type, size) == [type |-> type, size |-> size]
NoEvent == Event("none", NoSize)

\* the callback cb delivered to every listener in registration order
Notify(ls, cb) == [i \in 1..Len(ls) |-> <<i, cb>>]

\* mutant: a veto does not end the loop of onClose
VetoIgnored(shouldClose) == FALSE

\* Window::onClose returns at a listener that answers false (lines 84-86)
StopsAtVeto(shouldClose) == ~shouldClose

\* Window::onClose from listener i on: the listeners asked and the value returned
RECURSIVE onCloseFrom(_, _, _)
onCloseFrom(ls, i, asked) ==
  IF i > Len(ls)
    THEN [asked |-> asked, result |-> TRUE]
    ELSE IF StopsAtVeto(ls[i])
           THEN [asked |-> Append(asked, i), result |-> FALSE]
           ELSE onCloseFrom(ls, i + 1, Append(asked, i))

onClose(ls) == onCloseFrom(ls, 1, <<>>)

\* mutant: the event filter lets every event through
eventFilterKeepsAll(mainWindow, type, closeResult) == TRUE

\* SDL2Window::eventFilter: TRUE keeps the event, FALSE drops it
eventFilter(mainWindow, type, closeResult) ==
  IF mainWindow /\ type = "quit" THEN closeResult ELSE TRUE

\* the window state an operation works on
Working ==
  [mode |-> m_mode, fullscreen |-> m_fullscreen, init |-> initialized,
   reinits |-> FALSE, setViewport |-> FALSE, fired |-> <<>>, calls |-> <<>>,
   game |-> game, visible |-> m_visible, minimized |-> m_minimized,
   gamma |-> gamma, vsync |-> m_vsync, returned |-> TRUE,
   sdl |-> [sdl EXCEPT !.calls = <<>>]]

\* a call is entered in the record of the step
call(w, name) == [w EXCEPT !.calls = Append(@, name)]

\* arx_assert: a failing assertion is entered in the record of the step
arx_assert(w, holds, what) == IF holds THEN w ELSE call(w, what)

\* a call of the platform's gamma or swap interval functions is entered in the
\* record of the platform
platformCall(w, name, arg) == [w EXCEPT !.sdl.calls = Append(@, <<name, arg>>)]

\* SDL_SetWindowGammaRamp and SDL_SetWindowBrightness when they succeed: the
\* display has the ramp; a ramp set by SDL_SetWindowBrightness is the window's own
setRamp(w, ramp, own) ==
  [w EXCEPT !.sdl.ramp = ramp,
            !.sdl.before = IF own /\ ~w.sdl.ours THEN w.sdl.ramp ELSE @,
            !.sdl.ours = own]

\* SDL2Window::restoreGamma (lines 665-670)
restoreGamma(w) ==
  IF w.gamma.m_gammaOverridden
    THEN [setRamp(platformCall(w, "SDL_SetWindowGammaRamp", w.gamma.m_gammaRamp),
                  w.gamma.m_gammaRamp, FALSE)
            EXCEPT !.gamma.m_gammaOverridden = FALSE]
    ELSE w

\* lines 674-676: the ramp of the display is saved unless one is saved already
saveRamp(w) ==
  IF w.gamma.m_gammaOverridden THEN w
  ELSE [platformCall(w, "SDL_GetWindowGammaRamp", 0)
          EXCEPT !.gamma.m_gammaOverridden = w.sdl.getRampWorks,
                 !.gamma.m_gammaRamp = IF w.sdl.getRampWorks THEN w.sdl.ramp ELSE @]

\* mutant: the value is cached before the brightness is set
setGammaCachingFirst(w, hasWindow, value) ==
  IF hasWindow /\ w.fullscreen
    THEN LET w1 == platformCall(saveRamp(w), "SDL_SetWindowBrightness", value)
         IN IF ~w.sdl.brightnessWorks
              THEN [w1 EXCEPT !.returned = FALSE, !.gamma.m_gamma = value]
              ELSE [setRamp(w1, value, TRUE)
                      EXCEPT !.gamma.m_gamma = value, !.returned = TRUE]
    ELSE [w EXCEPT !.gamma.m_gamma = value, !.returned = TRUE]

\* SDL2Window::setGamma (lines 672-683); gamma is in tenths
setGamma(w, hasWindow, value) ==
  IF hasWindow /\ w.fullscreen
    THEN LET w1 == platformCall(saveRamp(w), "SDL_SetWindowBrightness", value)
         IN IF ~w.sdl.brightnessWorks
              THEN [w1 EXCEPT !.returned = FALSE]
              ELSE [setRamp(w1, value, TRUE)
                      EXCEPT !.gamma.m_gamma = value, !.returned = TRUE]
    ELSE [w EXCEPT !.gamma.m_gamma = value, !.returned = TRUE]

\* mutant: a rejected interval is not tried again
setVSyncOnce(w, hasWindow, vsync) ==
  IF hasWindow /\ vsync \notin w.sdl.accepted
    THEN [platformCall(w, "SDL_GL_SetSwapInterval", vsync) EXCEPT !.returned = FALSE]
    ELSE [(IF hasWindow
             THEN [platformCall(w, "SDL_GL_SetSwapInterval", vsync)
                     EXCEPT !.sdl.swapInterval = vsync]
             ELSE w)
            EXCEPT !.vsync = vsync, !.returned = TRUE]

RECURSIVE setVSync(_, _, _)
\* SDL2Window::setVSync (lines 654-663)
setVSync(w, hasWindow, vsync) ==
  IF hasWindow /\ vsync \notin w.sdl.accepted
    THEN LET w1 == platformCall(w, "SDL_GL_SetSwapInterval", vsync)
         IN IF vsync # 0 /\ vsync # 1
              THEN setVSync(w1, hasWindow, 1)
              ELSE [w1 EXCEPT !.returned = FALSE]
    ELSE [(IF hasWindow
             THEN [platformCall(w, "SDL_GL_SetSwapInterval", vsync)
                     EXCEPT !.sdl.swapInterval = vsync]
             ELSE w)
            EXCEPT !.vsync = vsync, !.returned = TRUE]

\* ArxGame::onRendererInit; a buffer still held when new ones are made is lost
onRendererInit(w) ==
  LET c == call(arx_assert(w, ~w.game.GRenderer, "arx_assert(GRenderer == nullptr)"),
                "onRendererInit")
  IN IF ~w.game.listens THEN w ELSE
     [c EXCEPT !.game.GRenderer = TRUE,
               !.game.leaked = @ \/ c.game.pDynamicVertexBuffer,
               !.game.pDynamicVertexBuffer = TRUE,
               !.game.m_bReady = TRUE]

\* mutant: the shutdown callback leaves the game ready
onRendererShutdownStaysReady(w) ==
  [call(w, "onRendererShutdown") EXCEPT !.game.GRenderer = FALSE]

\* ArxGame::onRendererShutdown
onRendererShutdown(w) ==
  LET c == call(w, "onRendererShutdown")
  IN IF ~w.game.listens THEN w
     ELSE IF ~c.game.GRenderer THEN c
     ELSE [c EXCEPT !.game.m_bReady = FALSE,
                    !.game.pDynamicVertexBuffer = FALSE,
                    !.game.GRenderer = FALSE]

\* OpenGLRenderer::shutdown; Renderer::onRendererShutdown calls the listener and
\* leaves the renderer uninitialized
shutdown(w) ==
  LET c == onRendererShutdown(
             call(arx_assert(w, w.init, "arx_assert(isInitialized())"), "shutdown"))
  IN [c EXCEPT !.init = FALSE]

\* OpenGLRenderer::reinit; Renderer::onRendererInit marks the renderer
\* initialized and calls the listener
reinit(w) ==
  LET c == onRendererInit(
             call(arx_assert(w, ~w.init, "arx_assert(!isInitialized())"), "reinit"))
  IN [c EXCEPT !.init = TRUE, !.reinits = TRUE]

\* mutant: afterResize reinitializes a renderer that is initialized
NeedsReinitAlways(init) == TRUE

\* the test of afterResize (line 377)
NeedsReinit(init) == ~init

\* mutant: the window tells the renderer of a fullscreen window
ResizeHookArgumentFullscreen(was, is) == was \/ is

\* the argument the window passes to beforeResize (lines 699 and 845)
ResizeHookArgument(was, is) == FALSE

\* OpenGLRenderer::beforeResize
beforeResize(w, wasOrIsFullscreen) ==
  LET c == call(w, IF wasOrIsFullscreen THEN "beforeResize(true)"
                                        ELSE "beforeResize(false)")
  IN IF platform = "linux" THEN c
     ELSE IF ~c.init THEN c
     ELSE IF platform = "win32" /\ ~wasOrIsFullscreen THEN c
     ELSE shutdown(c)

\* OpenGLRenderer::afterResize
afterResize(w) ==
  LET c == call(w, "afterResize")
  IN IF NeedsReinit(c.init) THEN reinit(c) ELSE c

\* m_renderer->SetViewport(Rect(m_mode.resolution.x, m_mode.resolution.y))
SetWindowViewport(w) == [call(w, "SetViewport") EXCEPT !.setViewport = TRUE]

\* Window::onResize
onResize(w, size) ==
  [w EXCEPT !.mode.resolution = size,
            !.fired = @ \o Notify(listeners, "onResizeWindow")]

\* mutant: the listeners are told only of a flag that changes
onToggleFullscreenIfChanged(w, fullscreen) ==
  [w EXCEPT !.fullscreen = fullscreen,
            !.fired = @ \o (IF fullscreen # w.fullscreen
                              THEN Notify(listeners, "onToggleFullscreen") ELSE <<>>)]

\* Window::onToggleFullscreen
onToggleFullscreen(w, fullscreen) ==
  [w EXCEPT !.fullscreen = fullscreen,
            !.fired = @ \o Notify(listeners, "onToggleFullscreen")]

\* Window::onCreate, onMove, onFocus(true)
onNotify(w, cb) == [w EXCEPT !.fired = @ \o Notify(listeners, cb)]

\* Window::onShow
onShow(w, isVisible) == [w EXCEPT !.visible = isVisible]

\* Window::onMinimize
onMinimize(w) == [onNotify(w, "onMinimizeWindow") EXCEPT !.minimized = TRUE]

\* Window::onRestore
onRestore(w) == [onNotify(w, "onRestoreWindow") EXCEPT !.minimized = FALSE]

\* Window::onDestroy; ArxGame::onDestroyWindow calls quit(), which ends the loop
\* of run
onDestroy(w) ==
  [onNotify(w, "onDestroyWindow") EXCEPT !.game.m_RunLoop = @ /\ ~w.game.listens]

\* SDL2Window::updateSize; size is what SDL_GetWindowSize reports and refresh what
\* SDL_GetCurrentDisplayMode reports
updateSize(w, force, size, refresh) ==
  LET newMode == [resolution |-> size, refresh |-> refresh]
      c0 == [call(w, "updateSize") EXCEPT !.mode = newMode]
      c1 == IF force \/ newMode.resolution # w.mode.resolution
              THEN SetWindowViewport(afterResize(c0))
              ELSE c0
  IN IF force \/ newMode # w.mode THEN onResize(c1, newMode.resolution) ELSE c1

\* mutant: a size-changed event is handled in fullscreen too
SizeChangeHandledInFullscreen(newSize, cached, fullscreen) == newSize # cached

\* the test of the SDL_WINDOWEVENT_SIZE_CHANGED case (line 844)
SizeChangeHandled(newSize, cached, fullscreen) == newSize # cached /\ ~fullscreen

\* mutant: the input backend is not handed the event
onEventSkipped(event) == NoEvent

\* what SDL2InputBackend::onEvent is handed (lines 881-883)
onEvent(event) == event

\* mutant: a quit event does not end the drain
QuitKeepsDraining(type) == FALSE

\* the case of the event returns from processEvents (line 870)
EndsDrain(type) == type = "quit"

\* the renderer and the cached window state after an operation
StoreWindow(w) ==
  /\ m_mode' = w.mode
  /\ m_fullscreen' = w.fullscreen
  /\ fired' = w.fired
  /\ resizeCalls' = w.calls
  /\ game' = w.game
  /\ m_visible' = w.visible
  /\ m_minimized' = w.minimized
  /\ gamma' = w.gamma
  /\ m_vsync' = w.vsync
  /\ sdl' = w.sdl
  /\ viewport' = IF w.setViewport THEN "full" ELSE viewport
  /\ IF w.reinits
       THEN ReinitContext
       ELSE /\ initialized' = w.init
            /\ UNCHANGED <<m_state, m_glstate, m_glsampleShading, m_glalphaToCoverage,
                           m_glalphaFunc, m_glblendSrc, m_glblendDst, m_MSAALevel,
                           m_hasMSAA, m_hasSampleShading, config, maxTextureStage,
                           m_scissor, gpu, calls, stageApplies, pending, flushRun>>

\* the size SDL gives a window created or switched with the given mode
NativeSizeFor(resolution, fullscreen) ==
  IF fullscreen /\ resolution = NoSize THEN DesktopSize ELSE resolution

\* the state after the constructors of Window and SDL2Window
NewGame(fpsLimit, vsync) ==
  [m_MainWindow |-> TRUE, listens |-> FALSE, m_RunLoop |-> TRUE, m_bReady |-> FALSE,
   GRenderer |-> FALSE, pDynamicVertexBuffer |-> FALSE, leaked |-> FALSE,
   run |-> "no", fpsLimit |-> fpsLimit, vsync |-> vsync, m_frameDelta |-> 0,
   frames |-> 0, target |-> 0, lastDuration |-> 0, slept |-> 0]

\* SDL2Window::SDL2Window and the setters ArxGame::initWindow calls before
\* initialize: no context, samples = 0 (line 436), m_minTextureUnits = 3
NewCreation(vita, maxMSAALevel, plan) ==
  [vita |-> vita, m_maxMSAALevel |-> maxMSAALevel,
   m_minTextureUnits |-> MinTextureUnits, plan |-> plan, m_glcontext |-> FALSE,
   windows |-> 0, contexts |-> 0, pc |-> "initialize", called |-> FALSE, msaa |-> 0,
   tried |-> <<>>, samples |-> 0]

\* the window after the constructors, whatever mode and configuration it has
WindowConstructed ==
  /\ s_mainWindow = FALSE
  /\ m_window = FALSE
  /\ listeners = <<>>
  /\ m_fullscreen = FALSE
  /\ nativeFullscreen = FALSE
  /\ nativeSize = NoSize
  /\ queue = <<>>
  /\ draining = FALSE
  /\ fired = <<>>
  /\ resizeCalls = <<>>
  /\ toInput = NoEvent
  /\ failed = "none"
  /\ m_visible = FALSE
  /\ m_minimized = FALSE
  /\ m_displayModes = <<>>
  /\ gamma = [m_gamma |-> DefaultGamma, m_gammaOverridden |-> FALSE,
              m_gammaRamp |-> NoRamp]
  /\ returned = [call |-> "none", arg |-> 0, value |-> TRUE]
  /\ touch = NoTouch

\* one display with one mode, a ramp that can be read and set, and a platform that
\* takes the swap intervals 0 and 1
PlainPlatform ==
  [modes |-> <<[w |-> 1, h |-> 1, refresh_rate |-> DisplayRefresh, ok |-> TRUE]>>,
   ramp |-> SystemRamp, getRampWorks |-> TRUE, brightnessWorks |-> TRUE,
   accepted |-> {0, 1}, swapInterval |-> 0, calls |-> <<>>,
   ours |-> FALSE, before |-> SystemRamp]

InitWindow ==
  /\ platform \in Platforms
  /\ WindowConstructed
  /\ sdl = PlainPlatform
  /\ m_vsync = 1
  /\ creation = NewCreation(FALSE, 1, <<>>)
  /\ m_mode = [resolution |-> DefaultSize, refresh |-> NoRefresh]
  /\ game = NewGame(DefaultFpsLimit, FALSE)

\* mutant: the refresh rate is not compared
DisplayModeLessByResolution(a, o) ==
  IF a.resolution[1] # o.resolution[1] THEN a.resolution[1] < o.resolution[1]
  ELSE a.resolution[2] < o.resolution[2]

\* DisplayMode::operator< (part_000, lines 24-32); resolution is <<x, y>>
DisplayModeLess(a, o) ==
  IF a.resolution[1] # o.resolution[1] THEN a.resolution[1] < o.resolution[1]
  ELSE IF a.resolution[2] # o.resolution[2] THEN a.resolution[2] < o.resolution[2]
  ELSE a.refresh < o.refresh

\* DisplayMode::operator==
DisplayModeEqual(a, o) == a.resolution = o.resolution /\ a.refresh = o.refresh

\* lines 224-233: the modes of all displays for which SDL_GetDisplayMode succeeds,
\* in the order they are reported
RECURSIVE ReportedModes(_)
ReportedModes(modes) ==
  IF modes = <<>> THEN <<>>
  ELSE (IF Head(modes).ok
          THEN <<[resolution |-> <<Head(modes).w, Head(modes).h>>,
                  refresh |-> Head(modes).refresh_rate]>>
          ELSE <<>>) \o ReportedModes(Tail(modes))

RECURSIVE InsertSorted(_, _)
\* std::sort, one element at a time: m goes before the first element it is less than
InsertSorted(m, sorted) ==
  IF sorted = <<>> THEN <<m>>
  ELSE IF DisplayModeLess(m, Head(sorted)) THEN <<m>> \o sorted
  ELSE <<Head(sorted)>> \o InsertSorted(m, Tail(sorted))

RECURSIVE sort(_)
\* std::sort with operator< (line 235)
sort(ms) == IF ms = <<>> THEN <<>> ELSE InsertSorted(Head(ms), sort(Tail(ms)))

\* mutant: the list is left with its duplicates
uniqueKeepsAll(ms) == ms

RECURSIVE unique(_)
\* std::unique and erase (lines 236-237): of each run of equal elements the first
\* is kept
unique(ms) ==
  IF Len(ms) < 2 THEN ms
  ELSE IF DisplayModeEqual(ms[1], ms[2]) THEN unique(<<ms[1]>> \o SubSeq(ms, 3, Len(ms)))
  ELSE <<ms[1]>> \o unique(Tail(ms))

\* SDL2Window::initializeFramework: the display modes are collected, s_mainWindow is
\* set and the filter installed
InitializeFramework ==
  /\ game.m_MainWindow
  /\ ~s_mainWindow
  /\ s_mainWindow' = TRUE
  /\ m_displayModes' = unique(sort(m_displayModes \o ReportedModes(sdl.modes)))
  /\ fired' = <<>>
  /\ resizeCalls' = <<>>
  /\ toInput' = NoEvent
  /\ failed' = "none"
  /\ sdl' = [sdl EXCEPT !.calls = <<>>]
  /\ UNCHANGED <<xvars, m_vsync, returned, gamma, creation, platform, m_window, listeners, m_fullscreen, m_mode, nativeFullscreen,
                 nativeSize, queue, draining, game, m_visible, m_minimized, rvars,
                 ivars, pvars>>

\* Window::addListener of a listener whose onCloseWindow returns accepts
AddListener(accepts) ==
  /\ game.m_MainWindow
  /\ ~draining
  /\ Len(listeners) < MaxListeners
  /\ listeners' = Append(listeners, accepts)
  /\ fired' = <<>>
  /\ resizeCalls' = <<>>
  /\ toInput' = NoEvent
  /\ failed' = "none"
  /\ UNCHANGED <<dvars, m_vsync, gamma, sdl, creation, platform, s_mainWindow, m_window, m_fullscreen, m_mode,
                 nativeFullscreen, nativeSize, queue, draining, game, m_visible,
                 m_minimized, rvars, ivars, pvars>>

\* std::find: the first position of listener in ls, Len(ls) + 1 for end()
find(ls, listener) ==
  IF \E i \in 1..Len(ls) : ls[i] = listener
    THEN CHOOSE i \in 1..Len(ls) :
           ls[i] = listener /\ \A j \in 1..(i - 1) : ls[j] # listener
    ELSE Len(ls) + 1

\* std::vector::erase of the element at position it
erase(ls, it) == SubSeq(ls, 1, it - 1) \o SubSeq(ls, it + 1, Len(ls))

RECURSIVE removeEveryRegistration(_, _)
\* mutant: every registration of the listener is removed
removeEveryRegistration(ls, listener) ==
  IF find(ls, listener) = Len(ls) + 1 THEN ls
  ELSE removeEveryRegistration(erase(ls, find(ls, listener)), listener)

\* Window::removeListener (lines 74-79)
removeListener(ls, listener) ==
  LET it == find(ls, listener)
  IN IF it # Len(ls) + 1 THEN erase(ls, it) ELSE ls

\* Window::removeListener called with one of the two listeners, told apart by what
\* their onCloseWindow returns
RemoveListener(listener) ==
  /\ game.m_MainWindow
  /\ ~draining
  /\ listeners' = removeListener(listeners, listener)
  /\ fired' = <<>>
  /\ resizeCalls' = <<>>
  /\ toInput' = NoEvent
  /\ failed' = "none"
  /\ UNCHANGED <<dvars, m_vsync, gamma, sdl, creation, platform, s_mainWindow, m_window, m_fullscreen, m_mode,
                 nativeFullscreen, nativeSize, queue, draining, game, m_visible,
                 m_minimized, rvars, ivars, pvars>>

\* ArxGame::initWindow, lines 397-398: the game listens to the window and to its
\* renderer.  It does not override onCloseWindow, which accepts the close.
RegisterGame ==
  /\ game.m_MainWindow
  /\ s_mainWindow
  /\ ~m_window
  /\ ~game.listens
  /\ listeners = <<>>
  /\ listeners' = Append(listeners, TRUE)
  /\ game' = [game EXCEPT !.listens = TRUE]
  /\ fired' = <<>>
  /\ resizeCalls' = <<>>
  /\ toInput' = NoEvent
  /\ failed' = "none"
  /\ UNCHANGED <<dvars, m_vsync, gamma, sdl, creation, platform, s_mainWindow, m_window, m_fullscreen, m_mode,
                 nativeFullscreen, nativeSize, queue, draining, m_visible, m_minimized,
                 rvars, ivars, pvars>>

\* SDL2Window::initialize from the creation of the window on (lines 628-645).
\* Where the calls of createWindowAndGLContext are not followed, the first is
\* taken to succeed.
Initialize(refresh) ==
  /\ s_mainWindow
  /\ IF creation.called THEN creation.pc = "initialize" /\ creation.samples > 0
                         ELSE ~m_window
  /\ ~draining
  /\ m_window' = TRUE
  /\ creation' = [creation EXCEPT !.pc = IF creation.called THEN "created" ELSE @]
  /\ nativeFullscreen' = m_fullscreen
  /\ nativeSize' = NativeSizeFor(m_mode.resolution, m_fullscreen)
  /\ LET v0 == setGamma(setVSync(Working, TRUE, m_vsync), TRUE, gamma.m_gamma)
         w0 == call(v0, "initialize")
         w1 == onToggleFullscreen(onNotify(w0, "onCreateWindow"), m_fullscreen)
         w2 == updateSize(w1, TRUE, nativeSize', refresh)
     IN StoreWindow(onNotify(onShow(w2, TRUE), "onWindowGotFocus"))
  /\ toInput' = NoEvent
  /\ failed' = "none"
  /\ UNCHANGED <<dvars, platform, s_mainWindow, listeners, queue, draining, ivars, pvars>>

\* the platform calls of changeMode that can fail
FailurePoints == {"none", "lookup", "displayMode", "fullscreen"}
Lookups == {"closest", "desktop"}

\* mutant: a window that is fullscreen keeps its mode while the new one is set
StaysFullscreen(fullscreen, wasFullscreen) == FALSE

\* the test of lines 701-702: a fullscreen window changes to another fullscreen mode
DropsToWindowed(fullscreen, wasFullscreen) == fullscreen /\ wasFullscreen

\* SDL2Window::changeMode.  fail names the platform call that fails: "lookup" is
\* SDL_GetClosestDisplayMode and SDL_GetDesktopDisplayMode both failing,
\* "displayMode" SDL_SetWindowDisplayMode, "fullscreen" the SDL_SetWindowFullscreen
\* of line 727.  lookup says which of the two lookups gave the mode.
changeMode(mode, fullscreen, fail, lookup, refresh) ==
  LET wasFullscreen == m_fullscreen
      needsLookup == fullscreen /\ mode.resolution # NoSize
      w0 == call(call(Working, IF fullscreen THEN "setFullscreenMode"
                                             ELSE "setWindowSize"),
                ResolutionName(mode.resolution))
      w1 == beforeResize(w0, ResizeHookArgument(m_fullscreen, fullscreen))
      drops == DropsToWindowed(fullscreen, wasFullscreen)
      p1 == IF drops THEN call(w1, "SDL_SetWindowFullscreen(0)") ELSE w1
      p2 == IF needsLookup /\ fail # "lookup"
              THEN call(p1, "SDL_SetWindowDisplayMode") ELSE p1
      p3 == IF fail \in {"lookup", "displayMode"}
              THEN p2 ELSE call(p2, "SDL_SetWindowFullscreen")
      p4 == IF ~fullscreen /\ wasFullscreen
              THEN call(restoreGamma(call(p3, "restoreGamma")), "SDL_RestoreWindow")
              ELSE p3
      p5 == IF ~fullscreen THEN call(p4, "SDL_SetWindowSize") ELSE p4
      left == IF drops THEN FALSE ELSE nativeFullscreen
      size == IF needsLookup /\ lookup = "desktop"
                THEN DesktopSize
                ELSE NativeSizeFor(mode.resolution, fullscreen)
      w2 == IF wasFullscreen # fullscreen THEN onToggleFullscreen(p5, fullscreen) ELSE p5
      w3 == IF fullscreen
              THEN updateSize(setGamma(call(w2, "setGamma"), TRUE, w2.gamma.m_gamma),
                              FALSE, size, refresh)
              ELSE w2
  IN /\ game.m_MainWindow
     /\ ~draining
     /\ fullscreen \/ mode.resolution # NoSize
     /\ toInput' = NoEvent
     /\ failed' = fail
     /\ UNCHANGED <<dvars, creation, platform, s_mainWindow, m_window, listeners, queue, ivars, pvars>>
     /\ IF ~m_window
          THEN /\ fail = "none" /\ lookup = "closest" /\ refresh = DisplayRefresh
               /\ m_mode' = mode
               /\ m_fullscreen' = fullscreen
               /\ fired' = <<>>
               /\ resizeCalls' = w0.calls
               /\ sdl' = w0.sdl
               /\ UNCHANGED <<nativeFullscreen, nativeSize, draining, game, m_visible,
                              m_minimized, m_vsync, gamma, rvars>>
          ELSE IF m_fullscreen = fullscreen /\ m_mode = mode
            THEN /\ fail = "none" /\ lookup = "closest" /\ refresh = DisplayRefresh
                 /\ fired' = <<>>
                 /\ resizeCalls' = w0.calls
                 /\ sdl' = w0.sdl
                 /\ UNCHANGED <<m_mode, m_fullscreen, nativeFullscreen, nativeSize,
                                draining, game, m_visible, m_minimized, m_vsync, gamma,
                                rvars>>
            ELSE /\ fail \in {"lookup", "displayMode"} => needsLookup
                 /\ lookup = "desktop" => needsLookup /\ fail # "lookup"
                 /\ (fail # "none" \/ ~fullscreen) => refresh = DisplayRefresh
                 /\ IF fail # "none"
                      THEN /\ nativeFullscreen' = left
                           /\ StoreWindow(p3)
                           /\ UNCHANGED <<nativeSize, draining>>
                      ELSE /\ nativeFullscreen' = fullscreen
                           /\ nativeSize' = size
                           /\ StoreWindow(call(w3, "processEvents"))
                           /\ draining' = TRUE

\* SDL2Window::setFullscreenMode
setFullscreenMode(mode, fail, lookup, refresh) ==
  changeMode(mode, TRUE, fail, lookup, refresh)

\* SDL2Window::setWindowSize: the size is converted to a mode without refresh rate
setWindowSize(size, fail, lookup, refresh) ==
  changeMode([resolution |-> size, refresh |-> NoRefresh], FALSE, fail, lookup, refresh)

\* the platform reports an event: SDL runs the event filter and queues the event
\* if the filter keeps it.  A size event of a window that is not fullscreen comes
\* with the window's new size.
PostEvent(type, size) ==
  LET close == onClose(listeners)
      event == Event(type, size)
      keep == eventFilter(s_mainWindow, type, close.result)
  IN /\ s_mainWindow
     /\ type # "quit" => m_window
     /\ (type = "size") = (size # NoSize)
     /\ Len(queue) < MaxQueue
     /\ queue' = IF keep THEN Append(queue, event) ELSE queue
     /\ nativeSize' = IF type = "size" /\ ~nativeFullscreen THEN size ELSE nativeSize
     /\ fired' = IF type = "quit"
                   THEN [k \in 1..Len(close.asked) |-> <<close.asked[k], "onCloseWindow">>]
                   ELSE <<>>
     /\ resizeCalls' = <<>>
     /\ toInput' = NoEvent
     /\ failed' = "none"
     /\ UNCHANGED <<dvars, m_vsync, gamma, sdl, creation, platform, s_mainWindow, m_window, listeners, m_fullscreen, m_mode,
                    nativeFullscreen, draining, game, m_visible, m_minimized, rvars,
                    ivars, pvars>>

\* SDL2Window::processEvents up to the loop; with waitForEvent it blocks until
\* the queue holds an event
processEvents(waitForEvent) ==
  /\ m_window
  /\ ~draining
  /\ waitForEvent => queue # <<>>
  /\ draining' = TRUE
  /\ fired' = <<>>
  /\ resizeCalls' = <<>>
  /\ toInput' = NoEvent
  /\ failed' = "none"
  /\ UNCHANGED <<dvars, m_vsync, gamma, sdl, creation, platform, s_mainWindow, m_window, listeners, m_fullscreen, m_mode,
                 nativeFullscreen, nativeSize, queue, game, m_visible, m_minimized,
                 rvars, ivars, pvars>>

\* one turn of the loop of processEvents: the oldest event is taken and handled.
\* The input backend exists (getInputBackend has been called), so every event whose
\* case does not return is handed to m_input->onEvent.
Dispatch(refresh) ==
  /\ draining
  /\ queue # <<>>
  /\ LET event == Head(queue)
         handled == event.type = "size"
                      /\ SizeChangeHandled(event.size, m_mode.resolution, m_fullscreen)
         w == CASE event.type = "quit" -> onDestroy(Working)
                [] event.type = "moved" ->
                     onNotify(IF ~m_fullscreen
                                THEN updateSize(Working, FALSE, nativeSize, refresh)
                                ELSE Working, "onMoveWindow")
                [] event.type = "size" ->
                     IF handled
                       THEN updateSize(
                              beforeResize(Working, ResizeHookArgument(m_fullscreen,
                                                                       m_fullscreen)),
                              FALSE, nativeSize, refresh)
                       ELSE Working
                [] event.type = "shown" -> onShow(Working, TRUE)
                [] event.type = "hidden" -> onShow(Working, FALSE)
                [] event.type = "minimized" -> onMinimize(Working)
                [] event.type = "restored" -> onRestore(Working)
                [] OTHER -> Working
         updates == (event.type = "moved" /\ ~m_fullscreen) \/ handled
     IN /\ ~updates => refresh = DisplayRefresh
        /\ queue' = Tail(queue)
        /\ StoreWindow(w)
        /\ draining' = ~EndsDrain(event.type)
        /\ toInput' = IF EndsDrain(event.type) THEN NoEvent ELSE onEvent(event)
        /\ failed' = "none"
  /\ UNCHANGED <<dvars, creation, platform, s_mainWindow, m_window, listeners, nativeFullscreen,
                 nativeSize, ivars, pvars>>

\* mutant: processEvents returns without a look at the renderer
RendererLostUnseen(init) == FALSE

\* the test of line 888
RendererLost(init) == ~init

\* processEvents after the loop (lines 888-892)
DrainEnd(refresh) ==
  /\ draining
  /\ queue = <<>>
  /\ initialized => refresh = DisplayRefresh
  /\ StoreWindow(IF RendererLost(initialized)
                   THEN SetWindowViewport(afterResize(
                          updateSize(Working, FALSE, nativeSize, refresh)))
                   ELSE Working)
  /\ draining' = FALSE
  /\ toInput' = NoEvent
  /\ failed' = "none"
  /\ UNCHANGED <<dvars, creation, platform, s_mainWindow, m_window, listeners, nativeFullscreen,
                 nativeSize, queue, ivars, pvars>>

\* SDL2Window::~SDL2Window: the renderer is deleted, and shut down first if it is
\* initialized; the SDL window is destroyed and SDL_Quit drops the queued events
Destroy ==
  /\ game.m_MainWindow
  /\ ~draining
  /\ LET w == call(Working, "~SDL2Window")
         d == IF w.init THEN shutdown(w) ELSE w
     IN StoreWindow([(IF m_window THEN restoreGamma(d) ELSE d)
                       EXCEPT !.game.m_MainWindow = FALSE])
  /\ s_mainWindow' = FALSE
  /\ m_window' = FALSE
  /\ nativeFullscreen' = FALSE
  /\ nativeSize' = NoSize
  /\ queue' = <<>>
  /\ toInput' = NoEvent
  /\ failed' = "none"
  /\ UNCHANGED <<dvars, creation, platform, listeners, draining, ivars, pvars>>

\* SDL2Window::setGamma called on the window; gamma is in tenths
SetGamma(value) ==
  /\ game.m_MainWindow
  /\ ~draining
  /\ LET w == setGamma(Working, m_window, value)
     IN /\ gamma' = w.gamma
        /\ sdl' = w.sdl
        /\ returned' = [call |-> "setGamma", arg |-> value, value |-> w.returned]
  /\ fired' = <<>>
  /\ resizeCalls' = <<"setGamma">>
  /\ toInput' = NoEvent
  /\ failed' = "none"
  /\ UNCHANGED <<xvars, m_displayModes, m_vsync, creation, platform, s_mainWindow, m_window,
                 listeners, m_fullscreen, m_mode, nativeFullscreen, nativeSize, queue,
                 draining, game, m_visible, m_minimized, rvars, ivars, pvars>>

\* SDL2Window::setVSync called on the window
SetVSync(vsync) ==
  /\ game.m_MainWindow
  /\ ~draining
  /\ LET w == setVSync(Working, m_window, vsync)
     IN /\ m_vsync' = w.vsync
        /\ sdl' = w.sdl
        /\ returned' = [call |-> "setVSync", arg |-> vsync, value |-> w.returned]
  /\ fired' = <<>>
  /\ resizeCalls' = <<"setVSync">>
  /\ toInput' = NoEvent
  /\ failed' = "none"
  /\ UNCHANGED <<xvars, m_displayModes, gamma, creation, platform, s_mainWindow, m_window,
                 listeners, m_fullscreen, m_mode, nativeFullscreen, nativeSize, queue,
                 draining, game, m_visible, m_minimized, rvars, ivars, pvars>>

\* the platform comes to answer SDL_GetWindowGammaRamp and
\* SDL_SetWindowBrightness differently
PlatformChanges(getRampWorks, brightnessWorks) ==
  /\ <<getRampWorks, brightnessWorks>> # <<sdl.getRampWorks, sdl.brightnessWorks>>
  /\ sdl' = [sdl EXCEPT !.getRampWorks = getRampWorks,
                        !.brightnessWorks = brightnessWorks,
                        !.calls = <<>>]
  /\ fired' = <<>>
  /\ resizeCalls' = <<>>
  /\ toInput' = NoEvent
  /\ failed' = "none"
  /\ UNCHANGED <<dvars, m_vsync, gamma, creation, platform, s_mainWindow, m_window,
                 listeners, m_fullscreen, m_mode, nativeFullscreen, nativeSize, queue,
                 draining, game, m_visible, m_minimized, rvars, ivars, pvars>>

(***************************************************************************)
(* SDL2Window::initialize up to the creation of the window, and            *)
(* SDL2Window::createWindowAndGLContext.                                   *)
(***************************************************************************)
DebugModes == {"Default", "Enabled", "NoError"}
\* config.video.renderer: the three names the code knows and one it does not
RendererNames == {"auto", "OpenGL", "OpenGL ES", "Direct3D"}

\* lines 442-477: the calls for desktop OpenGL, by their profile argument
DesktopCalls(debugMode) ==
  IF debugMode = "Default" THEN <<"Desktop OpenGL">>
  ELSE <<"Desktop OpenGL", "Desktop OpenGL">>

\* lines 479-501: the calls for OpenGL ES, compiled in with ARX_HAVE_EPOXY
ESCalls(debugMode, epoxy) ==
  IF ~epoxy THEN <<>>
  ELSE IF debugMode = "Enabled" THEN <<"OpenGL ES", "OpenGL ES">>
  ELSE <<"OpenGL ES">>

\* one pass of the loop of line 437
ApiCalls(isFirst, debugMode, renderer, epoxy) ==
  (IF isFirst = (renderer \in {"auto", "OpenGL"})
     THEN DesktopCalls(debugMode) ELSE <<>>)
  \o (IF isFirst = (renderer \in {"auto", "OpenGL ES"})
        THEN ESCalls(debugMode, epoxy) ELSE <<>>)

\* lines 432-506: the calls of createWindowAndGLContext that initialize makes
\* for as long as samples stays 0
CreationPlan(debugMode, renderer, epoxy) ==
  ApiCalls(TRUE, debugMode, renderer, epoxy)
  \o ApiCalls(FALSE, debugMode, renderer, epoxy)

CreationPlans ==
  {CreationPlan(d, r, e) : d \in DebugModes, r \in RendererNames, e \in BOOLEAN}

\* what GL_MAX_TEXTURE_UNITS can be read as; 0 also stands for a failed query
TextureUnitCounts == {0, MinTextureUnits - 1, MinTextureUnits}

\* line 297
lastTry(msaa) == msaa = 0

\* line 394
CreationResult(msaa) == IF msaa > 1 THEN msaa ELSE 1

\* a failed attempt: return 0 on the last try, else continue with msaa - 1
FailedTry(c) ==
  IF lastTry(c.msaa) THEN [c EXCEPT !.samples = 0, !.pc = "initialize", !.called = TRUE]
  ELSE [c EXCEPT !.msaa = @ - 1, !.pc = "cleanup"]

\* lines 296-394, one pass of the loop from SDL_ClearError on.  The result has the
\* field window: the value m_window is left with.
DesktopTry(c, window, context, msaaEnabled, msaaValue, texunits) ==
  LET c0 == [c EXCEPT !.tried = Append(@, c.msaa)]
      c1 == [c0 EXCEPT !.windows = @ + 1]
      c2 == [c1 EXCEPT !.contexts = @ + 1, !.m_glcontext = TRUE]
      end(r, w) == r @@ [window |-> w]
  IN IF ~window THEN end(FailedTry(c0), FALSE)
     ELSE IF ~context THEN end(FailedTry(c1), TRUE)
     ELSE IF c.msaa > 1 /\ (~msaaEnabled \/ msaaValue < c.msaa)
       THEN end([c2 EXCEPT !.msaa = @ - 1, !.pc = "cleanup"], TRUE)
     ELSE IF texunits < c.m_minTextureUnits THEN end(FailedTry(c2), TRUE)
     ELSE end([c2 EXCEPT !.samples = CreationResult(c.msaa), !.pc = "initialize",
                         !.called = TRUE], TRUE)

\* lines 399-411, the Vita build: one attempt, nothing destroyed before it
VitaTry(c, window, context) ==
  LET c1 == [c EXCEPT !.windows = @ + 1]
      c2 == [c1 EXCEPT !.contexts = @ + 1, !.m_glcontext = TRUE]
      end(r, w) == r @@ [window |-> w]
      returns(r, samples) == [r EXCEPT !.samples = samples, !.pc = "initialize",
                                       !.called = TRUE]
  IN IF ~window THEN end(returns(c, 0), FALSE)
     ELSE IF ~context THEN end(returns([c1 EXCEPT !.m_glcontext = FALSE], 0), TRUE)
     ELSE end(returns(c2, VitaSamples), TRUE)

CreationOnly ==
  UNCHANGED <<dvars, m_vsync, gamma, sdl, platform, s_mainWindow, listeners, m_fullscreen, m_mode,
              nativeFullscreen, nativeSize, queue, draining, fired, resizeCalls,
              toInput, failed, game, m_visible, m_minimized, rvars, ivars, pvars>>

\* initialize calls createWindowAndGLContext (lines 461, 472, 496): line 296
CallCreate ==
  /\ creation.pc = "initialize"
  /\ creation.samples = 0
  /\ creation.plan # <<>>
  /\ creation' = [creation EXCEPT !.plan = Tail(@), !.tried = <<>>,
                                  !.msaa = IF creation.vita THEN 0 ELSE creation.m_maxMSAALevel,
                                  !.pc = IF creation.vita THEN "create" ELSE "cleanup"]
  /\ UNCHANGED m_window
  /\ CreationOnly

\* lines 299-307: the context and the window of the previous try are destroyed
Cleanup ==
  /\ creation.pc = "cleanup"
  /\ creation' = [creation EXCEPT
                    !.contexts = IF creation.m_glcontext THEN @ - 1 ELSE @,
                    !.m_glcontext = FALSE,
                    !.windows = IF m_window THEN @ - 1 ELSE @,
                    !.pc = "create"]
  /\ m_window' = FALSE
  /\ CreationOnly

\* lines 309-394, or 399-411 in the Vita build
Create(window, context, msaaEnabled, msaaValue, texunits) ==
  /\ creation.pc = "create"
  /\ LET c == IF creation.vita THEN VitaTry(creation, window, context)
              ELSE DesktopTry(creation, window, context, msaaEnabled, msaaValue,
                              texunits)
     IN /\ creation' = [f \in DOMAIN creation |-> c[f]]
        /\ m_window' = c.window
  /\ CreationOnly

\* lines 508-510: no call is left and samples is 0: initialize returns false
EndCreation ==
  /\ creation.pc = "initialize"
  /\ creation.samples = 0 /\ creation.plan = <<>>
  /\ creation' = [creation EXCEPT !.pc = "failed"]
  /\ UNCHANGED m_window
  /\ CreationOnly

NextCreation ==
  \/ ~s_mainWindow /\ \E accepts \in BOOLEAN : AddListener(accepts)
  \/ InitializeFramework
  \/ s_mainWindow /\ CallCreate
  \/ Cleanup
  \/ \E window \in BOOLEAN, context \in BOOLEAN, msaaEnabled \in BOOLEAN,
        msaaValue \in 0..MaxMSAA, texunits \in TextureUnitCounts :
       Create(window, context, msaaEnabled, msaaValue, texunits)
  \/ EndCreation
  \/ creation.called /\ \E refresh \in Refreshes : Initialize(refresh)

(***************************************************************************)
(* ArxGame::run and the frame limiter of ArxGame::doFrame.                 *)
(***************************************************************************)
\* mutant: the value is not clamped
clampNothing(v, lo, hi) == v

\* arx::clamp
clamp(v, lo, hi) == IF v < lo THEN lo ELSE IF v > hi THEN hi ELSE v

\* mutant: vsync gets no headroom
targetFpsOfLimit(fpsLimit, refresh, vsync) ==
  IF fpsLimit <= 0 THEN (IF refresh <= 0 THEN FallbackFps ELSE refresh) ELSE fpsLimit

\* targetFps of doFrame (lines 1104-1114)
targetFps(fpsLimit, refresh, vsync) ==
  IF fpsLimit <= 0
    THEN (IF refresh <= 0 THEN FallbackFps ELSE refresh) + (IF vsync THEN 1 ELSE 0)
    ELSE fpsLimit

\* the frame limiter of doFrame (lines 1097-1124); lastDuration is the time since
\* the limiter last ran, refresh is getDisplayMode().refresh; benchmark mode is off
limitFrameRate(g, refresh, lastDuration) ==
  IF g.fpsLimit # 0
    THEN LET targetDuration == Second \div targetFps(g.fpsLimit, refresh, g.vsync)
             delta == clamp(g.m_frameDelta + targetDuration - lastDuration,
                            -targetDuration, targetDuration)
         IN [g EXCEPT !.m_frameDelta = delta,
                      !.target = targetDuration,
                      !.lastDuration = lastDuration,
                      !.slept = IF delta > 0 THEN delta ELSE 0]
    ELSE [g EXCEPT !.target = 0, !.lastDuration = 0, !.slept = 0]

\* the frame rate limits of the configuration the model draws: the display's
\* rate, no limit, 30 frames per second
FpsLimits == {DefaultFpsLimit, 0, 30}
\* the refresh rates of the display the model draws for the limiter: unknown, 50, 60
LimiterRefreshes == {NoRefresh, 50, DisplayRefresh}
\* the times between two runs of the limiter the model draws, in microseconds
FrameDurations == {0, 10000, 20000, 40000}

\* doFrame's frame limiter alone, run on a frame that took lastDuration
PaceFrame(lastDuration) ==
  /\ game.frames < MaxFrames
  /\ game.fpsLimit = 0 => lastDuration = 0
  /\ game' = [limitFrameRate(game, m_mode.refresh, lastDuration)
                EXCEPT !.frames = @ + 1]
  /\ UNCHANGED <<dvars, m_vsync, gamma, sdl, creation, platform, s_mainWindow, m_window, listeners, m_fullscreen, m_mode,
                 nativeFullscreen, nativeSize, queue, draining, fired, resizeCalls,
                 toInput, failed, m_visible, m_minimized, rvars, ivars, pvars>>

NextPacing == \E lastDuration \in FrameDurations : PaceFrame(lastDuration)

\* ArxGame::run is entered after initWindow has succeeded (lines 431-442)
StartRun ==
  /\ game.m_MainWindow
  /\ m_window
  /\ game.GRenderer
  /\ game.run = "no"
  /\ ~draining
  /\ game' = [game EXCEPT !.run = "loop"]
  /\ fired' = <<>>
  /\ resizeCalls' = <<>>
  /\ toInput' = NoEvent
  /\ failed' = "none"
  /\ UNCHANGED <<dvars, m_vsync, gamma, sdl, creation, platform, s_mainWindow, m_window, listeners, m_fullscreen, m_mode,
                 nativeFullscreen, nativeSize, queue, draining, m_visible, m_minimized,
                 rvars, ivars, pvars>>

\* mutant: a minimized window is drawn to
RunsFrameMinimized(visible, minimized, ready) == visible /\ ready

\* the test of line 1079
RunsFrame(visible, minimized, ready) == visible /\ ~minimized /\ ready

\* the head of an iteration of run (lines 1073-1083): the loop ends, or zombies
\* are reaped and either doFrame starts or processEvents(true) waits for an event
\* and starts on the queue
Iterate(lastDuration) ==
  /\ game.run = "loop"
  /\ ~draining
  /\ fired' = <<>>
  /\ toInput' = NoEvent
  /\ failed' = "none"
  /\ UNCHANGED <<dvars, m_vsync, gamma, sdl, creation, platform, s_mainWindow, m_window, listeners, m_fullscreen, m_mode,
                 nativeFullscreen, nativeSize, queue, m_visible, m_minimized, rvars,
                 ivars, pvars>>
  /\ IF ~game.m_RunLoop
       THEN /\ game' = [game EXCEPT !.run = "returned"]
            /\ resizeCalls' = <<>>
            /\ UNCHANGED draining
       ELSE IF RunsFrame(m_visible, m_minimized, game.m_bReady)
         THEN /\ game' = [limitFrameRate(game, m_mode.refresh, lastDuration)
                            EXCEPT !.run = "frame"]
              /\ resizeCalls' = <<"reapZombies", "doFrame">>
              /\ UNCHANGED draining
         ELSE /\ queue # <<>>
              /\ draining' = TRUE
              /\ resizeCalls' = <<"reapZombies", "processEvents(true)">>
              /\ UNCHANGED game

\* doFrame returns and run calls processEvents(false) (line 1081)
EndFrame ==
  /\ game.run = "frame"
  /\ ~draining
  /\ game' = [game EXCEPT !.run = "loop"]
  /\ draining' = TRUE
  /\ fired' = <<>>
  /\ resizeCalls' = <<"processEvents(false)">>
  /\ toInput' = NoEvent
  /\ failed' = "none"
  /\ UNCHANGED <<dvars, m_vsync, gamma, sdl, creation, platform, s_mainWindow, m_window, listeners, m_fullscreen, m_mode,
                 nativeFullscreen, nativeSize, queue, m_visible, m_minimized, rvars,
                 ivars, pvars>>

\* the events delivered to the window of the game
GameEventTypes == {"quit", "size", "hidden", "shown", "minimized", "restored"}
\* the time the frames of the game take: the frame limiter finds them on time
GameFrameDurations == {Second \div DisplayRefresh}

\* the game from initWindow to the end of run: the mode is set before the window
\* exists (line 429) and from the menus during a frame
NextGame ==
  \/ InitializeFramework
  \/ RegisterGame
  \/ game.listens /\ \E refresh \in Refreshes : Initialize(refresh)
  \/ /\ ~m_window \/ game.run = "frame"
     /\ \E mode \in RequestedModes, refresh \in Refreshes :
          setFullscreenMode(mode, "none", "closest", refresh)
  \/ /\ ~m_window \/ game.run = "frame"
     /\ \E size \in Sizes, fail \in {"none", "fullscreen"}, refresh \in Refreshes :
          setWindowSize(size, fail, "closest", refresh)
  \/ StartRun
  \/ \E lastDuration \in GameFrameDurations : Iterate(lastDuration)
  \/ EndFrame
  \/ /\ Len(queue) < MaxWaiting
     /\ \E type \in GameEventTypes, size \in {NoSize} \cup Sizes : PostEvent(type, size)
  \/ \E refresh \in Refreshes : Dispatch(refresh)
  \/ \E refresh \in Refreshes : DrainEnd(refresh)
  \/ game.run = "returned" /\ Destroy

\* the window under its listeners and the events of the platform; the platform
\* calls of a mode change succeed
NextWindow ==
  \/ InitializeFramework
  \/ \E accepts \in BOOLEAN : AddListener(accepts)
  \/ \E listener \in BOOLEAN : RemoveListener(listener)
  \/ \E refresh \in Refreshes : Initialize(refresh)
  \/ \E mode \in RequestedModes, lookup \in Lookups, refresh \in Refreshes :
       setFullscreenMode(mode, "none", lookup, refresh)
  \/ \E size \in Sizes, refresh \in Refreshes :
       setWindowSize(size, "none", "closest", refresh)
  \/ \E type \in EventTypes, size \in {NoSize} \cup Sizes : PostEvent(type, size)
  \/ \E waitForEvent \in BOOLEAN : processEvents(waitForEvent)
  \/ \E refresh \in Refreshes : Dispatch(refresh)
  \/ \E refresh \in Refreshes : DrainEnd(refresh)

\* the window of ArxGame from initWindow to its destruction: mode changes whose
\* platform calls can fail, and the renderer that goes with the window
NextMode ==
  \/ InitializeFramework
  \/ RegisterGame
  \/ \E refresh \in Refreshes : Initialize(refresh)
  \/ \E mode \in RequestedModes, fail \in FailurePoints, lookup \in Lookups,
        refresh \in Refreshes :
       setFullscreenMode(mode, fail, lookup, refresh)
  \/ \E size \in Sizes, fail \in FailurePoints, refresh \in Refreshes :
       setWindowSize(size, fail, "closest", refresh)
  \/ \E type \in EventTypes, size \in {NoSize} \cup Sizes : PostEvent(type, size)
  \/ \E waitForEvent \in BOOLEAN : processEvents(waitForEvent)
  \/ \E refresh \in Refreshes : Dispatch(refresh)
  \/ \E refresh \in Refreshes : DrainEnd(refresh)
  \/ Destroy

\* the window, constructed and left alone
InitWindowIdle ==
  /\ platform = "linux"
  /\ InitWindow

\* the renderer, constructed and left alone
InitRendererIdle ==
  /\ m_hasSampleShading = FALSE
  /\ config = [antialiasing |-> FALSE, alphaCutoutAntialiasing |-> 0]
  /\ InitRenderer

InitInfoIdle ==
  /\ m_version = 0
  /\ m_versionOverride = NoVersionOverride
  /\ m_extensionOverrides = <<>>
  /\ detected = {}
  /\ query = NoQuery
  /\ pc = "done"
  /\ first = TRUE
  /\ log = <<>>

\* the renderer at work, OpenGLInfo left alone
RendererInit == InitRenderer /\ InitInfoIdle /\ InitWindowIdle

\* OpenGLInfo at work, the renderer left alone
InfoInit == InitInfo /\ InitRendererIdle /\ InitWindowIdle

SpecRenderer == RendererInit /\ [][NextRenderer]_vars

SpecRendererFrame == RendererInit /\ [][NextRendererFrame]_vars

SpecInfo == InfoInit /\ [][NextInfo]_vars

\* the constructor of OpenGLInfo at work, the renderer left alone
ParseInit == InitParse /\ InitRendererIdle /\ InitWindowIdle

SpecParse == ParseInit /\ [][NextParse]_vars

\* the window at work: the renderer as constructed, OpenGLInfo left alone
WindowInit == InitWindow /\ InitRendererIdle /\ InitInfoIdle

SpecWindow == WindowInit /\ [][NextWindow]_vars

SpecMode == WindowInit /\ [][NextMode]_vars

SpecGame == WindowInit /\ [][NextGame]_vars

\* the frame limiter at work on a configuration and a display mode, the window
\* as constructed otherwise
PacingInit ==
  /\ platform = "linux"
  /\ WindowConstructed
  /\ sdl = PlainPlatform
  /\ m_vsync = 1
  /\ creation = NewCreation(FALSE, 1, <<>>)
  /\ m_mode \in [resolution : {DefaultSize}, refresh : LimiterRefreshes]
  /\ game \in {NewGame(fpsLimit, vsync) : fpsLimit \in FpsLimits, vsync \in BOOLEAN}
  /\ InitRendererIdle
  /\ InitInfoIdle

SpecPacing == PacingInit /\ [][NextPacing]_vars

\* the window before initialize, in either build and with any configuration
CreationInit ==
  /\ platform = "linux"
  /\ WindowConstructed
  /\ sdl = PlainPlatform
  /\ m_vsync = 1
  /\ m_mode = [resolution |-> DefaultSize, refresh |-> NoRefresh]
  /\ game = NewGame(DefaultFpsLimit, FALSE)
  /\ creation \in {NewCreation(vita, maxMSAALevel, plan) :
                      vita \in BOOLEAN, maxMSAALevel \in 0..MaxMSAA,
                      plan \in CreationPlans}
  /\ InitRendererIdle
  /\ InitInfoIdle

SpecCreation == CreationInit /\ [][NextCreation]_vars

\* the display modes: what SDL_GetDisplayMode answers for each mode index of each
\* display, in the order the loops of initializeFramework ask; a failed query has
\* no mode; MaxModes is the number of queries
MaxModes == 3
Widths == {1, 2}
Heights == {1, 2}
RefreshRates == {50, DisplayRefresh}
ModeAnswers ==
  {[w |-> w, h |-> h, refresh_rate |-> r, ok |-> TRUE] :
     w \in Widths, h \in Heights, r \in RefreshRates}
  \cup {[w |-> 0, h |-> 0, refresh_rate |-> 0, ok |-> FALSE]}
ModeAnswerLists == UNION {[1..n -> ModeAnswers] : n \in 0..MaxModes}

DisplayInit ==
  /\ platform = "linux"
  /\ WindowConstructed
  /\ sdl \in {[PlainPlatform EXCEPT !.modes = modes] : modes \in ModeAnswerLists}
  /\ m_vsync = 1
  /\ m_mode = [resolution |-> DefaultSize, refresh |-> NoRefresh]
  /\ game = NewGame(DefaultFpsLimit, FALSE)
  /\ creation = NewCreation(FALSE, 0, <<>>)
  /\ InitRendererIdle
  /\ InitInfoIdle

NextDisplay == InitializeFramework

\* gamma in tenths, and swap intervals: -1 is adaptive vsync
Gammas == {DefaultGamma, 12}
SwapIntervals == {-1, 0, 1, 2}
AcceptedIntervals == SUBSET {-1, 0, 1}
ScreenModes == {[resolution |-> DefaultSize, refresh |-> DisplayRefresh]}

\* the window with a platform that takes some swap intervals
VSyncInit ==
  /\ platform = "linux"
  /\ WindowConstructed
  /\ sdl \in {[PlainPlatform EXCEPT !.accepted = accepted] :
                accepted \in AcceptedIntervals}
  /\ m_vsync \in {0, 1}
  /\ m_mode = [resolution |-> DefaultSize, refresh |-> NoRefresh]
  /\ game = NewGame(DefaultFpsLimit, FALSE)
  /\ creation = NewCreation(FALSE, 0, <<>>)
  /\ InitRendererIdle
  /\ InitInfoIdle

\* the swap interval of the window, from its construction to its destruction
NextVSync ==
  \/ InitializeFramework
  \/ \E refresh \in Refreshes : Initialize(refresh)
  \/ \E vsync \in SwapIntervals : SetVSync(vsync)
  \/ Destroy

SpecVSync == VSyncInit /\ [][NextVSync]_vars

GammaInit ==
  /\ platform = "linux"
  /\ WindowConstructed
  /\ sdl = PlainPlatform
  /\ m_vsync = 1
  /\ m_mode = [resolution |-> DefaultSize, refresh |-> NoRefresh]
  /\ game = NewGame(DefaultFpsLimit, FALSE)
  /\ creation = NewCreation(FALSE, 0, <<>>)
  /\ InitRendererIdle
  /\ InitInfoIdle

\* the gamma of the window, from its construction to its destruction, in and out
\* of fullscreen, on a platform whose gamma calls can fail
NextGamma ==
  \/ InitializeFramework
  \/ \E refresh \in Refreshes : Initialize(refresh)
  \/ \E mode \in ScreenModes, fail \in {"none", "fullscreen"}, refresh \in Refreshes :
       setFullscreenMode(mode, fail, "closest", refresh)
  \/ \E fail \in {"none", "fullscreen"}, refresh \in Refreshes :
       setWindowSize(DefaultSize, fail, "closest", refresh)
  \/ \E refresh \in Refreshes : DrainEnd(refresh)
  \/ \E value \in Gammas : SetGamma(value)
  \/ \E getRampWorks, brightnessWorks \in BOOLEAN :
       PlatformChanges(getRampWorks, brightnessWorks)
  \/ Destroy

SpecGamma == GammaInit /\ [][NextGamma]_vars

\* the renderer detects what the context can do (lines 288-311), before the
\* first buffer is made
DetectBufferCapabilities(caps) ==
  /\ buffers.last.vertex = ""
  /\ caps # buffers.caps
  /\ buffers' = [buffers EXCEPT !.caps = caps]
  /\ UNCHANGED <<touch, rvars, ivars, pvars>>
  /\ UNCHANGED <<platform, s_mainWindow, m_window, listeners, m_fullscreen, m_mode,
                 nativeFullscreen, nativeSize, queue, draining, fired, resizeCalls,
                 toInput, failed, game, m_visible, m_minimized, creation, sdl,
                 m_displayModes, gamma, m_vsync, returned>>

\* createVertexBufferTL, createVertexBuffer and createVertexBuffer3 (lines 845-865)
\* with config.video.bufferUpload = setting
CreateVertexBuffer(vertex, usage, setting) ==
  /\ buffers.warnings[vertex] < MaxWarnings
  /\ LET r == createVertexBufferImpl(buffers.caps, usage, setting,
                                     buffers.warned[vertex], FALSE, 0)
     IN buffers' =
          [buffers EXCEPT !.warned[vertex] = r.warned,
                          !.warnings[vertex] = IF r.logged THEN @ + 1 ELSE @,
                          !.last = [vertex |-> vertex, usage |-> usage,
                                    setting |-> setting, buffer |-> r.buffer,
                                    depth |-> r.depth, logged |-> r.logged,
                                    caps |-> buffers.caps]]
  /\ UNCHANGED <<touch, rvars, ivars, pvars>>
  /\ UNCHANGED <<platform, s_mainWindow, m_window, listeners, m_fullscreen, m_mode,
                 nativeFullscreen, nativeSize, queue, draining, fired, resizeCalls,
                 toInput, failed, game, m_visible, m_minimized, creation, sdl,
                 m_displayModes, gamma, m_vsync, returned>>

\* everything constructed and left alone
IdleInit == InitRendererIdle /\ InitInfoIdle /\ InitWindowIdle

NextBuffers ==
  \/ \E caps \in Capabilities : DetectBufferCapabilities(caps)
  \/ \E vertex \in VertexTypes, usage \in Usages, setting \in BufferUploads :
       CreateVertexBuffer(vertex, usage, setting)

SpecBuffers == IdleInit /\ [][NextBuffers]_vars

\* what the input backend leaves alone
TouchOnly ==
  /\ UNCHANGED <<buffers, rvars, ivars, pvars>>
  /\ UNCHANGED <<platform, s_mainWindow, m_window, listeners, m_fullscreen, m_mode,
                 nativeFullscreen, nativeSize, queue, draining, fired, resizeCalls,
                 toInput, failed, game, m_visible, m_minimized, creation, sdl,
                 m_displayModes, gamma, m_vsync, returned>>

\* SDL2InputBackend::SDL2InputBackend (line 366) and the window's m_input: from
\* now on the window hands its events to the backend (SDL2Window.cpp, 880-882)
AttachInput ==
  /\ ~touch.attached
  /\ touch' = [touch EXCEPT !.attached = TRUE, !.missed = touch.held[0],
                            !.numFingers = 0]
  /\ TouchOnly

\* a finger is put on a touch device: SDL_FINGERDOWN
FingerDown(touchId) ==
  /\ touch.held[touchId] < MaxFingers
  /\ \A b \in Buttons : touch.clickCount[b] < MaxClicks /\ touch.balance[b] < MaxClicks
  /\ LET t == [touch EXCEPT !.held[touchId] = @ + 1]
     IN touch' = IF touch.attached THEN fingerDown(t, touchId) ELSE t
  /\ TouchOnly

\* a finger is lifted: SDL_FINGERUP
FingerUp(touchId) ==
  /\ touch.held[touchId] > 0
  /\ \A b \in Buttons : touch.unclickCount[b] < MaxClicks /\ touch.balance[b] > -MaxClicks
  /\ LET t == [touch EXCEPT !.held[touchId] = @ - 1]
     IN touch' = IF touch.attached THEN fingerUp(t, touchId) ELSE t
  /\ TouchOnly

\* SDL2InputBackend::update, once a frame
Update ==
  /\ touch.attached
  /\ touch' = update(touch)
  /\ TouchOnly

NextTouch ==
  \/ AttachInput
  \/ \E touchId \in TouchDevices : FingerDown(touchId)
  \/ \E touchId \in TouchDevices : FingerUp(touchId)
  \/ Update

SpecTouch == IdleInit /\ [][NextTouch]_vars

SpecDisplay == DisplayInit /\ [][NextDisplay]_vars

(***************************************************************************)
(* Properties of the renderer state cache.                                 *)
(***************************************************************************)
\* the GPU pipeline state without the multisample enable
PipelineOf(g) ==
  [cull |-> g.cull, fog |-> g.fog, sampleShading |-> g.sampleShading,
   alphaToCoverage |-> g.alphaToCoverage, alphaFunc |-> g.alphaFunc,
   blendSrc |-> g.blendSrc, blendDst |-> g.blendDst, depthFunc |-> g.depthFunc,
   depthMask |-> g.depthMask, polygonOffset |-> g.polygonOffset]

\* the alpha-test mode the GPU is in
GpuAlphaMode ==
  IF gpu.sampleShading THEN "TestSS"
  ELSE IF gpu.alphaToCoverage THEN "TestA2C"
  ELSE IF gpu.alphaFunc = <<"GL_ALWAYS", 0>> THEN "TestNone"
  ELSE IF gpu.alphaFunc = <<"GL_GREATER", 0>> THEN "TestConservative"
  ELSE "TestStrict"

\* C1: when flushState is called twice in a row with nothing in between, the
\* second call issues no pipeline-state GPU call; only the texture stages
\* 0..maxTextureStage are applied again.
C1_FlushIdempotent ==
  flushRun = 2 => (calls \cap PipelineCalls = {} /\ stageApplies = maxTextureStage + 1)

C1_Witness ==
  /\ flushRun = 2
  /\ m_state.alphaCutout
  /\ m_state.cull
  /\ stageApplies = maxTextureStage + 1

\* the GPU pipeline state that a desired state stands for
DerivedPipeline(st) ==
  LET mode == AlphaTestMode(st, UseSS(m_hasMSAA, m_hasSampleShading, config),
                            UseA2C(m_hasMSAA, config))
  IN [cull |-> st.cull, fog |-> st.fog,
      depthFunc |-> IF st.depthTest THEN "GL_LEQUAL" ELSE "GL_ALWAYS",
      depthMask |-> st.depthWrite, polygonOffset |-> 0 - st.depthOffset,
      blendSrc |-> arxToGlBlendFactor(DerivedBlendSrc(st)),
      blendDst |-> arxToGlBlendFactor(st.blendDst),
      alphaFunc |-> AlphaFuncOf(AlphaRefOf(mode))]

GpuIsDerived(st) ==
  LET d == DerivedPipeline(st)
  IN \A f \in DOMAIN d : gpu[f] = d[f]

\* C2: right after every flushState the applied state equals the desired state
\* and the GPU pipeline state is the one derived from the desired state.
C2_AppliedConverges ==
  flushRun >= 1 => (m_glstate = m_state /\ GpuIsDerived(m_state))

\* C2, the part the code keeps: the cache equals the desired state after a flush
C2_CacheConverges == flushRun >= 1 => m_glstate = m_state

\* C3 as stated: outside flushState (and reinit) no pipeline-state GPU call is
\* issued and the applied-state cache is not modified.
C3_OnlyFlushTouchesCache ==
  [][FlushState \/ Reinit
     \/ (m_glstate' = m_glstate /\ calls' \cap PipelineCalls = {}
         /\ PipelineOf(gpu') = PipelineOf(gpu))]_vars

\* what Clear may do to the cache: switch an applied depth-write-off back on
ClearEffect ==
  /\ ~m_glstate.depthWrite
  /\ m_glstate' = [m_glstate EXCEPT !.depthWrite = TRUE]
  /\ calls' = {"glDepthMask"}
  /\ PipelineOf(gpu') = [PipelineOf(gpu) EXCEPT !.depthMask = TRUE]
  /\ m_state' = m_state

\* what SetAntialiasing may do to the cache: a flush with alpha cutout cleared
AntialiasingEffect ==
  /\ m_glstate.alphaCutout
  /\ m_hasMSAA' # m_hasMSAA
  /\ m_glstate' = [m_state EXCEPT !.alphaCutout = FALSE]
  /\ ~gpu'.sampleShading /\ ~gpu'.alphaToCoverage
  /\ gpu'.alphaFunc = <<"GL_ALWAYS", 0>>
  /\ m_state' = m_state

\* C3 (amended): a step that changes the desired state, the viewport or the
\* scissor leaves the cache and the GPU pipeline alone and issues no pipeline
\* call; any other step outside flushState and reinit either does the same or is
\* Clear re-enabling the depth mask or SetAntialiasing flushing with alpha cutout
\* cleared.
C3_MutatorsLeaveCache ==
  [][/\ (m_state' # m_state \/ viewport' # viewport \/ m_scissor' # m_scissor)
          => (m_glstate' = m_glstate /\ calls' = {} /\ gpu' = gpu
              /\ m_glalphaFunc' = m_glalphaFunc /\ m_glblendSrc' = m_glblendSrc
              /\ m_glblendDst' = m_glblendDst
              /\ m_glsampleShading' = m_glsampleShading
              /\ m_glalphaToCoverage' = m_glalphaToCoverage)
     /\ \/ (m_glstate' = m_glstate /\ calls' \cap PipelineCalls = {}
            /\ PipelineOf(gpu') = PipelineOf(gpu))
        \/ ClearEffect
        \/ AntialiasingEffect
        \/ FlushState
        \/ Reinit]_vars

C3_Witness ==
  /\ pending >= 1
  /\ flushRun = 0
  /\ calls = {"glDepthMask"}
  /\ m_glstate.depthWrite
  /\ ~m_state.depthWrite
  /\ m_scissor = "rect"
  /\ viewport = "half"

\* "the blend pair incorporates source alpha"
IncorporatesSrcAlpha(st) ==
  st.blendSrc = "BlendSrcAlpha" \/ st.blendDst = "BlendInvSrcAlpha"

MsaaSS == m_hasSampleShading /\ m_hasMSAA /\ config.alphaCutoutAntialiasing = CrispAlphaCutoutAA
MsaaA2C == m_hasMSAA /\ config.alphaCutoutAntialiasing = FuzzyAlphaCutoutAA

\* C4 as stated: with alpha cutout desired the mode is conservative when the
\* blend pair incorporates source alpha, and for every other pair sample
\* shading, else alpha-to-coverage, else strict.
C4_ModeSelection ==
  (flushRun >= 1 /\ m_state.alphaCutout) =>
     GpuAlphaMode = IF IncorporatesSrcAlpha(m_state) THEN "TestConservative"
                    ELSE IF MsaaSS THEN "TestSS"
                    ELSE IF MsaaA2C THEN "TestA2C"
                    ELSE "TestStrict"

\* C4 (amended): conservative for the additive pair (One, One) and for pairs
\* that incorporate source alpha; sample shading, else alpha-to-coverage, else
\* strict for the opaque pair (One, Zero); sample shading, else strict for every
\* other pair (alpha-to-coverage is not used while blending).
C4_ModeSelectionAmended ==
  (flushRun >= 1 /\ m_state.alphaCutout) =>
     GpuAlphaMode =
       IF m_state.blendSrc = "BlendOne" /\ m_state.blendDst = "BlendZero"
         THEN (IF MsaaSS THEN "TestSS" ELSE IF MsaaA2C THEN "TestA2C" ELSE "TestStrict")
       ELSE IF (m_state.blendSrc = "BlendOne" /\ m_state.blendDst = "BlendOne")
               \/ IncorporatesSrcAlpha(m_state)
         THEN "TestConservative"
       ELSE (IF MsaaSS THEN "TestSS" ELSE "TestStrict")

C4_Witness ==
  /\ flushRun >= 1
  /\ m_state.alphaCutout
  /\ m_state.blendSrc = "BlendZero"
  /\ MsaaA2C
  /\ GpuAlphaMode = "TestStrict"

\* C5: a derived GPU setting (sample shading, alpha-to-coverage, alpha
\* function, blend function) is issued only when its value changes, and the
\* cached values are what the GPU has.
C5_DerivedChangeDetected ==
  [][/\ "GL_SAMPLE_SHADING" \in calls' => gpu'.sampleShading # gpu.sampleShading
     /\ "GL_SAMPLE_ALPHA_TO_COVERAGE" \in calls' => gpu'.alphaToCoverage # gpu.alphaToCoverage
     /\ "glAlphaFunc" \in calls' => gpu'.alphaFunc # gpu.alphaFunc
     /\ "glBlendFunc" \in calls' =>
          (gpu'.blendSrc # gpu.blendSrc \/ gpu'.blendDst # gpu.blendDst)
     /\ initialized' =>
          /\ m_glsampleShading' = gpu'.sampleShading
          /\ m_glalphaToCoverage' = gpu'.alphaToCoverage
          /\ AlphaFuncOf(m_glalphaFunc') = gpu'.alphaFunc
          /\ m_glblendSrc' = gpu'.blendSrc
          /\ m_glblendDst' = gpu'.blendDst]_vars

\* a flush that took the changed raw blend pair to the GPU without touching the
\* alpha function, which both pairs derive alike
C5_Witness ==
  /\ flushRun = 1
  /\ m_state.alphaCutout
  /\ calls = {"glBlendFunc"}
  /\ m_glalphaFunc = 0
  /\ gpu.alphaFunc = <<"GL_GREATER", 0>>

(***************************************************************************)
(* Properties of OpenGLInfo::has.  query holds the last call and its       *)
(* result; the object is as it was when the call was made.                 *)
(***************************************************************************)
Queried == query.ext # "none"

\* the native version suffices or the native extension query reports it
DetectionSucceeded == m_version >= query.version \/ query.ext \in detected

\* the positions of the override entries that name an extension
EntriesFor(extension) ==
  {i \in 1..Len(m_extensionOverrides) : m_extensionOverrides[i][2] = extension}

LastEntryFor(extension) ==
  CHOOSE i \in EntriesFor(extension) : \A j \in EntriesFor(extension) : j <= i

\* the sign of the entry registered last for an extension, or "none"
LastSign(extension) ==
  IF EntriesFor(extension) = {} THEN "none"
  ELSE m_extensionOverrides[LastEntryFor(extension)][1]

\* the override list cut down to the entry registered last for an extension
LastOnly(extension) ==
  IF EntriesFor(extension) = {} THEN <<>>
  ELSE <<m_extensionOverrides[LastEntryFor(extension)]>>

\* C6: with an empty override list and the default version override,
\* has(ext, v) is true iff the native version is >= v or ext is detected.
C6_NoOverrides ==
  (Queried /\ m_extensionOverrides = <<>> /\ m_versionOverride = NoVersionOverride)
    => (query.result <=> DetectionSucceeded)

C6_Witness ==
  /\ Queried
  /\ m_extensionOverrides = <<>>
  /\ m_versionOverride = NoVersionOverride
  /\ m_version < query.version
  /\ query.ext \in detected
  /\ query.result

\* C7 as stated: when the entry registered last for ext is "+ext", has(ext, v)
\* is true whatever the native version and the native extension query say.
C7_PlusForcesOn ==
  (Queried /\ LastSign(query.ext) = "+") => query.result

\* C7 (amended): when the entry registered last for ext is "+ext", has(ext, v)
\* is true iff the native version is >= v or the native extension query reports
\* ext, whatever the version override; an undetected extension stays off.
C7_PlusKeepsDetected ==
  (Queried /\ LastSign(query.ext) = "+") => (query.result <=> DetectionSucceeded)

C7_Witness ==
  /\ Queried
  /\ LastSign(query.ext) = "+"
  /\ m_versionOverride < query.version
  /\ m_version < query.version
  /\ query.ext \in detected
  /\ query.result

\* C8: when the entry registered last for ext is "-ext", has(ext, v) is false
\* whatever the native version, the detected set and the version override.
C8_MinusForcesOff ==
  (Queried /\ LastSign(query.ext) = "-") => ~query.result

C8_Witness ==
  /\ Queried
  /\ LastSign(query.ext) = "-"
  /\ m_version >= query.version
  /\ query.ext \in detected
  /\ m_versionOverride = NoVersionOverride
  /\ ~query.result

\* C9 as stated: when no entry names ext and detection failed, has(ext, v) is
\* true iff the version override is >= v.
C9_FallbackAfterFailedDetection ==
  (Queried /\ LastSign(query.ext) = "none" /\ ~DetectionSucceeded)
    => (query.result <=> m_versionOverride >= query.version)

\* C9 (amended): when no entry names ext, has(ext, v) is false if detection
\* failed, and if detection succeeded it is true iff the version override
\* is >= v.
C9_FallbackAfterDetection ==
  (Queried /\ LastSign(query.ext) = "none")
    => (query.result <=> (DetectionSucceeded /\ m_versionOverride >= query.version))

C9_Witness ==
  /\ Queried
  /\ LastSign(query.ext) = "none"
  /\ m_extensionOverrides # <<>>
  /\ DetectionSucceeded
  /\ m_versionOverride = query.version
  /\ query.result

\* C10: has(ext, v) obeys the entry registered last for ext: the answer is the
\* one the list cut down to that entry gives, entries for other extensions and
\* earlier entries for ext change nothing, and once detection has succeeded the
\* answer is the sign of that entry.
C10_LastWins ==
  Queried =>
    /\ query.result = has(m_version, detected, LastOnly(query.ext),
                          m_versionOverride, query.ext, query.version)
    /\ (DetectionSucceeded /\ LastSign(query.ext) # "none")
         => (query.result <=> LastSign(query.ext) = "+")

C10_Witness ==
  /\ Queried
  /\ Len(m_extensionOverrides) = 3
  /\ m_extensionOverrides[1] = <<"-", query.ext>>
  /\ m_extensionOverrides[2] = <<"+", query.ext>>
  /\ m_extensionOverrides[3][2] # query.ext
  /\ m_extensionOverrides[3][1] = "-"
  /\ DetectionSucceeded
  /\ query.result

(***************************************************************************)
(* Properties of the override parse.                                       *)
(***************************************************************************)
\* what each version token of the model is documented to stand for
DocumentedValue(token) ==
  CASE token = <<"4", ".", "2">> -> 42
    [] token = <<"4", ".", "1", "0">> -> 50
    [] token = <<"5", ".", "0">> -> 50
    [] token = <<"G", "L", "3", ".", "0">> -> 30
    [] token = <<"2", "1">> -> 21
    [] token = <<"3">> -> 30
    [] token \in {<<"+", "*">>, <<"+">>} -> NoVersionOverride
    [] token \in {<<"-", "*">>, <<"-">>} -> m_version

\* the positions of the log that hold a version token
VersionPositions == {i \in 1..Len(log) : log[i].token \in VersionTokens}

LastVersionPosition ==
  IF VersionPositions = {} THEN 0
  ELSE CHOOSE i \in VersionPositions : \A j \in VersionPositions : j <= i

IsRegistration(item) ==
  item.parse = "workarounds" \/ item.token \in ExtensionTokens

RECURSIVE RegisteredFrom(_)
\* the entries registered from a position of the log on, in order
RegisteredFrom(i) ==
  IF i > Len(log) THEN <<>>
  ELSE (IF IsRegistration(log[i]) THEN <<EntryOf(log[i].token)>> ELSE <<>>)
       \o RegisteredFrom(i + 1)

\* C11: the override list holds exactly the entries registered after the last
\* valid version token, in registration order (all of them, the constructor's
\* workarounds first, when there was none), and the version override is the
\* value of that token (the default when there was none).
C11_VersionTokenResets ==
  /\ m_extensionOverrides = RegisteredFrom(LastVersionPosition + 1)
  /\ m_versionOverride = IF LastVersionPosition = 0 THEN NoVersionOverride
                         ELSE DocumentedValue(log[LastVersionPosition].token)

\* a workaround wiped by 4.2, -GL_BAR registered after it
C11_Witness ==
  /\ pc = "done"
  /\ Len(log) = 3
  /\ log[1].parse = "workarounds"
  /\ log[2].token = <<"4", ".", "2">>
  /\ log[3].token = <<"-", "G", "L", "_", "B", "A", "R">>
  /\ m_extensionOverrides = <<EntryOf(<<"-", "G", "L", "_", "B", "A", "R">>)>>
  /\ m_versionOverride = 42

\* the step read a token of one of the strings
TokenRead == Len(log') = Len(log) + 1 /\ log'[Len(log')].parse # "workarounds"

\* C12: an extension token appends one entry and leaves the version override
\* and every earlier entry as they were.
C12_ExtensionTokenAppends ==
  [][(TokenRead /\ log'[Len(log')].token \in ExtensionTokens) =>
       /\ m_extensionOverrides' = Append(m_extensionOverrides, EntryOf(log'[Len(log')].token))
       /\ m_versionOverride' = m_versionOverride]_vars

\* the command-line string holds only an extension token: it is appended to what
\* the config string left
C12_Witness ==
  /\ Len(log) = 3
  /\ log[1].parse = "workarounds"
  /\ log[2].token = <<"+", "G", "L", "_", "F", "O", "O">> /\ log[2].parse = "config"
  /\ log[3].token = <<"-", "G", "L", "_", "B", "A", "R">> /\ log[3].parse = "cmdline"
  /\ m_versionOverride = NoVersionOverride
  /\ Len(m_extensionOverrides) = 3

\* C13: a malformed token leaves the version override, the override list and
\* the parse's own state as they were, so the tokens behind it are read as if
\* it were absent.
C13_MalformedTokenIgnored ==
  [][(TokenRead /\ log'[Len(log')].token \in MalformedTokens) =>
       /\ m_extensionOverrides' = m_extensionOverrides
       /\ m_versionOverride' = m_versionOverride
       /\ first' = first
       /\ pc' = pc]_vars

\* a malformed token, and a good one behind it in the same string
C13_Witness ==
  /\ Len(log) = 3
  /\ log[1].parse = "workarounds"
  /\ log[2].token \in MalformedTokens
  /\ log[3].token = <<"2", "1">>
  /\ log[2].parse = log[3].parse
  /\ m_versionOverride = 21
  /\ m_extensionOverrides = <<>>

\* the (MAJOR, MINOR) pairs of the accepted MAJOR.MINOR tokens of the model
MajorMinor(token) ==
  CASE token = <<"4", ".", "2">> -> <<4, 2>>
    [] token = <<"4", ".", "1", "0">> -> <<4, 10>>
    [] token = <<"5", ".", "0">> -> <<5, 0>>
    [] token = <<"G", "L", "3", ".", "0">> -> <<3, 0>>

MajorMinorTokens ==
  {<<"4", ".", "2">>, <<"4", ".", "1", "0">>, <<"5", ".", "0">>, <<"G", "L", "3", ".", "0">>}

LexLess(a, b) == a[1] < b[1] \/ (a[1] = b[1] /\ a[2] < b[2])

\* C14: a version token sets the override to its documented encoding, and of
\* two accepted MAJOR.MINOR tokens the one with the lexicographically smaller
\* (MAJOR, MINOR) gets the strictly smaller override.
C14_EncodingOrderPreserving ==
  /\ \A i \in 1..Len(log) :
       log[i].token \in VersionTokens =>
         log[i].versionOverride = DocumentedValue(log[i].token)
  /\ \A i, j \in 1..Len(log) :
       (/\ log[i].token \in MajorMinorTokens
        /\ log[j].token \in MajorMinorTokens
        /\ LexLess(MajorMinor(log[i].token), MajorMinor(log[j].token)))
         => log[i].versionOverride < log[j].versionOverride

\* the names the queries ask about: one the strings name, one a workaround
\* names, one nothing names
AskedExtensions ==
  {<<"G", "L", "_", "F", "O", "O">>, <<"G", "L", "_", "A", "R", "B", "_", "s", "a", "m", "p", "l", "e", "_", "s", "h", "a", "d", "i", "n", "g">>, <<"G", "L", "_", "E", "X", "T", "_", "x">>}

NoEntryFor(extension) ==
  \A i \in 1..Len(m_extensionOverrides) : m_extensionOverrides[i][2] # extension

LastVersionTokenIn(tokens) ==
  LastVersionPosition # 0 /\ log[LastVersionPosition].token \in tokens

\* C15: when the last version token is "-*" or "-", has(ext, v) for an ext that
\* no entry names is true iff the native version is >= v, whatever the native
\* query reports; when it is "+*" or "+", has(ext, v) is again true iff the
\* native version is >= v or the native query reports ext.
C15_PinToNative ==
  /\ LastVersionTokenIn({<<"-", "*">>, <<"-">>}) =>
       \A extension \in AskedExtensions, minVersion \in QueryVersions :
         \A det \in {{}, {extension}} :
           NoEntryFor(extension) =>
             (has(m_version, det, m_extensionOverrides, m_versionOverride,
                  extension, minVersion) <=> m_version >= minVersion)
  /\ LastVersionTokenIn({<<"+", "*">>, <<"+">>}) =>
       \A extension \in AskedExtensions, minVersion \in QueryVersions :
         \A det \in {{}, {extension}} :
           NoEntryFor(extension) =>
             (has(m_version, det, m_extensionOverrides, m_versionOverride,
                  extension, minVersion)
                <=> (m_version >= minVersion \/ extension \in det))

\* pinned by the config string, on a driver older than some asked version
C15_Witness ==
  /\ pc = "done"
  /\ Len(log) = 2
  /\ log[1].token = <<"4", ".", "2">>
  /\ log[2].token = <<"-", "*">>
  /\ m_version = 21
  /\ m_versionOverride = 21
  /\ ~has(m_version, {<<"G", "L", "_", "F", "O", "O">>}, m_extensionOverrides, m_versionOverride,
          <<"G", "L", "_", "F", "O", "O">>, 30)

(***************************************************************************)
(* Properties of the window: close veto, event drain, resize, changeMode.  *)
(***************************************************************************)
QuitEvent == Event("quit", NoSize)
Callbacks(notified) == {notified[k][2] : k \in 1..Len(notified)}
Vetoing == {i \in 1..Len(listeners) : ~listeners[i]}
\* the listener at which onClose has to stop: the first that vetoes, or the last
LastAsked ==
  IF Vetoing = {}
    THEN Len(listeners)
    ELSE CHOOSE i \in Vetoing : \A j \in Vetoing : i <= j
\* the step is a close request: the quit event went through the event filter
CloseRequest ==
  \/ queue' = Append(queue, QuitEvent)
  \/ "onCloseWindow" \in Callbacks(fired')
\* the step is a turn of the loop of processEvents
DispatchStep == Len(queue') < Len(queue) /\ game'.m_MainWindow

\* C16: on a close request onClose asks the listeners' onCloseWindow handlers in
\* registration order up to and including the first that returns false, asks none
\* registered after it, and returns true (the quit event is kept) exactly when
\* no registered listener vetoes; with no listener it returns true.
C16_CloseVetoShortCircuit ==
  [][CloseRequest =>
       /\ fired' = [k \in 1..LastAsked |-> <<k, "onCloseWindow">>]
       /\ (queue' = Append(queue, QuitEvent)) <=> (Vetoing = {})
       /\ onClose(listeners).result <=> (Vetoing = {})]_vars

\* a vetoing listener registered before an accepting one was asked, the accepting
\* one was not
C16_Witness ==
  /\ listeners = <<FALSE, TRUE>>
  /\ fired = <<<<1, "onCloseWindow">>>>
  /\ queue = <<>>

NumQuits(q) == Cardinality({k \in 1..Len(q) : q[k].type = "quit"})

\* C17: a close request that some listener vetoes leaves the queue as it was (the
\* quit event is dropped), fires no Destroyed and leaves the window and its drain
\* as they were; a quit event enters the queue only when every listener accepted,
\* and Destroyed fires only in the turn of the drain that takes a quit event.
C17_VetoedCloseNeverDestroys ==
  [][/\ (CloseRequest /\ Vetoing # {}) =>
          /\ queue' = queue
          /\ "onDestroyWindow" \notin Callbacks(fired')
          /\ UNCHANGED <<m_window, draining, listeners>>
     /\ NumQuits(queue') > NumQuits(queue) => Vetoing = {}
     /\ "onDestroyWindow" \in Callbacks(fired') =>
          /\ DispatchStep
          /\ Head(queue) = QuitEvent]_vars

\* the second listener vetoed a close request while a moved event was waiting:
\* the event is still there and no quit event joined it
C17_Witness ==
  /\ m_window
  /\ listeners = <<TRUE, FALSE>>
  /\ fired = <<<<1, "onCloseWindow">>, <<2, "onCloseWindow">>>>
  /\ queue = <<Event("moved", NoSize)>>

\* C18: events leave the queue only in the loop of processEvents, oldest first;
\* the turn that takes a quit event fires Destroyed on every listener in
\* registration order and ends the call: nothing reaches the input backend, no
\* window state changes, the code after the loop does not run and the events
\* behind the quit event stay in the queue.
C18_QuitAbortsDrain ==
  [][DispatchStep =>
       /\ draining
       /\ queue' = Tail(queue)
       /\ Head(queue) = QuitEvent =>
            /\ fired' = Notify(listeners, "onDestroyWindow")
            /\ ~draining'
            /\ toInput' = NoEvent
            /\ resizeCalls' = <<>>
            /\ UNCHANGED <<m_mode, m_fullscreen, initialized, listeners>>]_vars

\* processEvents has returned on a quit event with a size event left behind it
C18_Witness ==
  /\ ~draining
  /\ fired = Notify(listeners, "onDestroyWindow")
  /\ Len(listeners) = MaxListeners
  /\ queue # <<>>
  /\ Head(queue).type = "size"

\* C19: the turn of the drain that takes a size-changed event while m_fullscreen
\* is set and the event's size differs from the cached one fires no Resize, calls
\* neither beforeResize nor afterResize and leaves the cached mode alone; with a
\* window in fullscreen the cached resolution changes only in a step that calls
\* updateSize.
C19_ResizeSuppressedInFullscreen ==
  [][/\ (/\ DispatchStep
         /\ Head(queue).type = "size"
         /\ m_fullscreen
         /\ Head(queue).size # m_mode.resolution) =>
          /\ "onResizeWindow" \notin Callbacks(fired')
          /\ resizeCalls' = <<>>
          /\ m_mode' = m_mode
     /\ (m_window /\ m_fullscreen /\ m_mode'.resolution # m_mode.resolution) =>
          \E k \in 1..Len(resizeCalls') : resizeCalls'[k] = "updateSize"]_vars

\* a size event with a size other than the cached one has just been taken in
\* fullscreen
C19_Witness ==
  /\ m_window
  /\ m_fullscreen
  /\ draining
  /\ toInput.type = "size"
  /\ toInput.size # m_mode.resolution
  /\ resizeCalls = <<>>

\* C20: a changeMode in which a platform call fails leaves m_mode and
\* m_fullscreen as they were, notifies no listener, leaves the cached fullscreen
\* flag in agreement with the native window if it agreed before, and leaves the
\* renderer initialized or not as it was.
C20_FailedModeChangeKeepsState ==
  [][failed' # "none" =>
       /\ UNCHANGED <<m_mode, m_fullscreen>>
       /\ fired' = <<>>
       /\ (m_fullscreen = nativeFullscreen) => (m_fullscreen' = nativeFullscreen')
       /\ initialized' = initialized]_vars

(***************************************************************************)
(* Mode changes, the resize hooks and the renderer's life cycle.           *)
(***************************************************************************)
\* the record of a step holds the call
Has(L, name) == \E k \in 1..Len(L) : L[k] = name

\* every call b of the record comes after a call a
Precedes(L, a, b) ==
  \A k \in 1..Len(L) : L[k] = b => \E j \in 1..(k - 1) : L[j] = a

\* the step is a call of setFullscreenMode or setWindowSize
ChangeModeStep ==
  /\ resizeCalls' # <<>>
  /\ resizeCalls'[1] \in {"setFullscreenMode", "setWindowSize"}

RequestedFullscreen == resizeCalls'[1] = "setFullscreenMode"

\* the mode the step asked for
RequestedMode ==
  LET size == CHOOSE r \in {NoSize} \cup Sizes : ResolutionName(r) = resizeCalls'[2]
  IN [resolution |-> size,
      refresh |-> IF RequestedFullscreen /\ size # NoSize THEN DisplayRefresh
                                                          ELSE NoRefresh]

\* the platform calls that switch the mode of the native window
ModeSwitchCalls ==
  {"SDL_SetWindowFullscreen(0)", "SDL_SetWindowDisplayMode", "SDL_SetWindowFullscreen",
   "SDL_RestoreWindow", "SDL_SetWindowSize"}

RECURSIVE CallbacksFrom(_, _, _)
\* the renderer callbacks of the record from entry k on, met with m_bReady = ready:
\* whether they alternate, and m_bReady after them
CallbacksFrom(L, k, ready) ==
  IF k > Len(L) THEN [alternate |-> TRUE, ready |-> ready]
  ELSE IF L[k] = "onRendererInit"
    THEN IF ready THEN [alternate |-> FALSE, ready |-> ready]
                  ELSE CallbacksFrom(L, k + 1, TRUE)
  ELSE IF L[k] = "onRendererShutdown"
    THEN IF ~ready THEN [alternate |-> FALSE, ready |-> ready]
                   ELSE CallbacksFrom(L, k + 1, FALSE)
  ELSE CallbacksFrom(L, k + 1, ready)

C26_RunCadence ==
  [][LET L == resizeCalls'
     IN /\ (/\ game.run = "loop" /\ ~draining /\ game.m_RunLoop
            /\ (game'.run # game.run \/ draining')) =>
             IF m_visible /\ ~m_minimized /\ game.m_bReady
               THEN /\ L = <<"reapZombies", "doFrame">>
                    /\ game'.run = "frame"
                    /\ ~draining'
               ELSE /\ L = <<"reapZombies", "processEvents(true)">>
                    /\ queue # <<>>
                    /\ draining'
                    /\ game'.run = "loop"
        /\ (game.run = "frame" /\ game'.run # "frame") =>
             /\ L = <<"processEvents(false)">>
             /\ draining'
             /\ game'.run = "loop"
        /\ (Has(L, "doFrame") \/ Has(L, "processEvents(true)")) =>
             game.run = "loop" /\ game.m_RunLoop /\ ~draining
        /\ Has(L, "processEvents(false)") => game.run = "frame"]_vars

\* run has found a ready game with a minimized window and waits for an event
C26_Witness ==
  /\ m_visible
  /\ m_minimized
  /\ game.m_bReady
  /\ resizeCalls = <<"reapZombies", "processEvents(true)">>

\* C27: a run of the frame limiter leaves m_frameDelta at the old m_frameDelta
\* plus the target duration minus the duration of the last frame, clamped to
\* [-target, target], and sleeps for m_frameDelta if that is positive and not at
\* all otherwise.
C27_FrameDeltaClamped ==
  [][(game'.frames # game.frames /\ game.fpsLimit # 0) =>
       LET T == game'.target
           sum == game.m_frameDelta + T - game'.lastDuration
       IN /\ T > 0
          /\ game'.m_frameDelta = (IF sum < -T THEN -T ELSE IF sum > T THEN T ELSE sum)
          /\ -T <= game'.m_frameDelta
          /\ game'.m_frameDelta <= T
          /\ game'.slept = (IF game'.m_frameDelta > 0 THEN game'.m_frameDelta ELSE 0)]_vars

\* two frames that took no time: the second sum is above the target and clamped
C27_Witness ==
  /\ game.frames = 2
  /\ game.target > 0
  /\ game.lastDuration = 0
  /\ game.m_frameDelta = game.target
  /\ game.slept = game.target

\* C28 as stated: a limit of 0 paces to the display's refresh rate (60 if
\* unknown), a limit of -1 never paces, a positive limit N paces to 1s / N.
C28_ZeroMatchesDisplay ==
  [][game'.frames # game.frames =>
       /\ game.fpsLimit = 0 =>
            game'.target = Second \div (IF m_mode.refresh <= 0 THEN 60
                                                               ELSE m_mode.refresh)
       /\ game.fpsLimit = -1 =>
            game'.slept = 0 /\ game'.m_frameDelta = game.m_frameDelta
       /\ game.fpsLimit > 0 => game'.target = Second \div game.fpsLimit]_vars

\* C28 amended: a limit of 0 switches the limiter off: m_frameDelta stays and
\* nothing sleeps; a limit of -1 paces to the display's refresh rate, 60 if it
\* is unknown, plus one frame per second if vsync is on; a positive limit N
\* paces to 1s / N.
C28_LimitOfConfiguration ==
  [][game'.frames # game.frames =>
       /\ game.fpsLimit = 0 =>
            /\ game'.target = 0
            /\ game'.slept = 0
            /\ game'.m_frameDelta = game.m_frameDelta
       /\ game.fpsLimit < 0 =>
            game'.target =
              Second \div ((IF m_mode.refresh <= 0 THEN FallbackFps ELSE m_mode.refresh)
                             + (IF game.vsync THEN 1 ELSE 0))
       /\ game.fpsLimit > 0 => game'.target = Second \div game.fpsLimit]_vars

\* the limit is -1, vsync is on and the refresh rate unknown: the limiter has
\* paced to 61 frames per second and slept
C28_Witness ==
  /\ game.fpsLimit = -1
  /\ game.vsync
  /\ m_mode.refresh = NoRefresh
  /\ game.target = Second \div (FallbackFps + 1)
  /\ game.slept > 0

(***************************************************************************)
(* C30: the quality-degradation ladder of createWindowAndGLContext.        *)
(***************************************************************************)
\* the last call of createWindowAndGLContext has returned
CreationReturned ==
  creation.called /\ creation.pc \in {"initialize", "created", "failed"}

\* the ladder as described: the levels tried so far descend one by one from
\* m_maxMSAALevel and never pass 0; nothing of an earlier attempt exists when a
\* window is about to be created, and never more than one window and one context;
\* a positive result is max(level, 1) of the level tried last, and the result is 0
\* only after level 0 was tried; the level is bounded below, so the loop ends
LadderContract ==
  LET c == creation
      n == Len(c.tried)
  IN /\ \A i \in 1..n : c.tried[i] = c.m_maxMSAALevel - (i - 1) /\ c.tried[i] >= 0
     /\ c.windows <= 1 /\ c.contexts <= 1
     /\ c.pc = "create" => c.windows = 0 /\ c.contexts = 0
     /\ CreationReturned /\ c.samples > 0
          => /\ n > 0
             /\ c.samples = (IF c.tried[n] >= 1 THEN c.tried[n] ELSE 1)
     /\ CreationReturned /\ c.samples = 0 => n > 0 /\ c.tried[n] = 0
     /\ c.pc \in {"cleanup", "create"} => c.msaa \in 0..c.m_maxMSAALevel

\* C30: createWindowAndGLContext tries the MSAA levels in strictly descending order
\* from m_maxMSAALevel down to 0, destroys the window and context of a failed
\* attempt before the next one, so that at most one native window and one GL
\* context exist at any time, ends at the first level that passes all validations
\* with the result max(level, 1), returns 0 only after level 0 failed, and
\* terminates for every m_maxMSAALevel >= 0.
C30_DegradationLadder == LadderContract

\* the same in the builds that compile the loop of lines 296-395
C30_DesktopLadder == ~creation.vita => LadderContract

\* a desktop search that stepped down from a failed level and returned
C30_DesktopWitness ==
  /\ ~creation.vita
  /\ CreationReturned
  /\ Len(creation.tried) > 1
  /\ creation.samples > 0

\* the Vita build with a second native window: the call repeated after
\* SDL_GL_CreateContext failed
C30_VitaLeak == creation.vita /\ creation.windows > 1

(***************************************************************************)
(* C39: sample shading, alpha to coverage and MSAA.                        *)
(***************************************************************************)
\* the two cached enables are never both set, and each is set only with
\* multisampling on and alpha cutout in the applied state
SampleStateConsistent ==
  /\ ~(m_glsampleShading /\ m_glalphaToCoverage)
  /\ m_glsampleShading \/ m_glalphaToCoverage => m_hasMSAA /\ m_glstate.alphaCutout

\* C39: in every state reachable through reinit, desired-state changes, flushState
\* and SetAntialiasing, m_glsampleShading and m_glalphaToCoverage are never both
\* true, and neither is true while m_hasMSAA is false or while the applied state has
\* alpha cutout off; SetAntialiasing leaves the desired alpha-cutout flag as it
\* found it.
C39_SampleStateExclusive ==
  [][/\ SampleStateConsistent'
     /\ "GL_MULTISAMPLE" \in calls' => m_state'.alphaCutout = m_state.alphaCutout]_vars

\* SetAntialiasing has just switched multisampling off while a cutout was applied
\* with sample shading or alpha to coverage, and the desired state still asks for
\* the cutout
C39_Witness ==
  /\ "GL_MULTISAMPLE" \in calls
  /\ ~m_hasMSAA
  /\ m_state.alphaCutout
  /\ ~m_glstate.alphaCutout
  /\ calls \cap {"GL_SAMPLE_SHADING", "GL_SAMPLE_ALPHA_TO_COVERAGE"} # {}

(***************************************************************************)
(* C31: the notifications of SDL2Window::initialize.                       *)
(***************************************************************************)
RECURSIVE InOrder(_, _)
\* each callback of cbs in turn, each delivered to every listener once
InOrder(n, cbs) ==
  IF cbs = <<>> THEN <<>>
  ELSE [i \in 1..n |-> <<i, Head(cbs)>>] \o InOrder(n, Tail(cbs))

\* C31: a successful SDL2Window::initialize notifies the listeners of Created, then
\* FullscreenToggled, then Resize, the window then becomes shown and focused, with
\* focus-gained fired last, in exactly that order and each exactly once; none of
\* these notifications fires when initialize returns false.
C31_InitializeNotifications ==
  [][/\ creation'.pc = "created" /\ creation.pc # "created"
          => /\ fired' = InOrder(Len(listeners),
                                 <<"onCreateWindow", "onToggleFullscreen",
                                   "onResizeWindow", "onWindowGotFocus">>)
             /\ m_visible'
     /\ creation'.pc = "failed" => fired' = <<>> /\ ~m_visible']_vars

\* initialize has succeeded at a lower MSAA level with two listeners registered
C31_Witness ==
  /\ creation.pc = "created"
  /\ Len(creation.tried) > 1
  /\ Len(listeners) = 2
  /\ Len(fired) = 8

(***************************************************************************)
(* C35: the listener registry.                                             *)
(***************************************************************************)
\* the callbacks of the step other than onCloseWindow went to the listeners in
\* registration order: every entry but the first listener's follows the entry of
\* the listener before, and every entry but the last listener's is followed by
\* the entry of the listener after
DeliveredInOrder(f, n) ==
  \A k \in 1..Len(f) :
    f[k][2] # "onCloseWindow" =>
      /\ f[k][1] \in 1..n
      /\ f[k][1] > 1 => k > 1 /\ f[k - 1] = <<f[k][1] - 1, f[k][2]>>
      /\ f[k][1] < n => k < Len(f) /\ f[k + 1] = <<f[k][1] + 1, f[k][2]>>

\* C35: addListener appends to an ordered collection and every notification is
\* delivered to the registered listeners in registration order; removeListener of
\* a listener that is not registered changes nothing, and removeListener of a
\* registered listener removes one registration and preserves the relative order
\* of the others.
C35_ListenerRegistry ==
  [][/\ DeliveredInOrder(fired', Len(listeners'))
     /\ Len(listeners') > Len(listeners)
          => SubSeq(listeners', 1, Len(listeners)) = listeners
             /\ Len(listeners') = Len(listeners) + 1
     /\ Len(listeners') < Len(listeners)
          => \E i \in 1..Len(listeners) :
               listeners' = [k \in 1..(Len(listeners) - 1) |->
                               IF k < i THEN listeners[k] ELSE listeners[k + 1]]
     /\ \A listener \in BOOLEAN :
          (\A i \in 1..Len(listeners) : listeners[i] # listener)
            => removeListener(listeners, listener) = listeners]_vars

\* a listener registered twice has lost one registration, and a notification has
\* gone to the two that remain
C35_Witness ==
  /\ Len(listeners) = 2
  /\ listeners[1] = listeners[2]
  /\ Len(fired) >= 2

(***************************************************************************)
(* Properties of the display modes.                                        *)
(***************************************************************************)

Range(f) == {f[i] : i \in DOMAIN f}

\* the modes the displays reported
Reported == Range(ReportedModes(sdl.modes))

\* the fields in the order they are compared
ModeKey(m) == <<m.resolution[1], m.resolution[2], m.refresh>>

\* lexicographic comparison of two keys of three numbers
KeyBefore(k, l) ==
  \/ k[1] < l[1]
  \/ k[1] = l[1] /\ k[2] < l[2]
  \/ k[1] = l[1] /\ k[2] = l[2] /\ k[3] < l[3]

OneOf(p, q, r) == (p /\ ~q /\ ~r) \/ (~p /\ q /\ ~r) \/ (~p /\ ~q /\ r)

\* C36: DisplayMode::operator< compares resolution.x, then resolution.y, then
\* refresh, and is a strict total order: no mode is less than itself, less-than is
\* transitive, and of two modes exactly one is less than the other or all three
\* fields are equal.
C36_StrictTotalOrder ==
  \A a \in Reported :
    /\ ~DisplayModeLess(a, a)
    /\ \A b \in Reported :
         /\ DisplayModeLess(a, b) = KeyBefore(ModeKey(a), ModeKey(b))
         /\ OneOf(DisplayModeLess(a, b), DisplayModeLess(b, a), ModeKey(a) = ModeKey(b))
         /\ \A c \in Reported :
              DisplayModeLess(a, b) /\ DisplayModeLess(b, c) => DisplayModeLess(a, c)

\* the list was sorted from three modes that differ in the refresh rate only, in
\* the height only and in the width
C36_Witness ==
  /\ s_mainWindow
  /\ \E a, b, c \in Reported :
       /\ a.resolution = b.resolution /\ a.refresh < b.refresh
       /\ b.resolution[1] = c.resolution[1] /\ b.resolution[2] < c.resolution[2]
       /\ Len(m_displayModes) = 3
       /\ m_displayModes = <<a, b, c>>

StrictlyIncreasing(ms) ==
  \A i \in 1..(Len(ms) - 1) : DisplayModeLess(ms[i], ms[i + 1])

\* C37: after initializeFramework the exposed list of display modes is strictly
\* increasing under operator<, so sorted and without two equal entries, and holds
\* exactly the modes the displays reported.
C37_DisplayModesSortedUnique ==
  s_mainWindow =>
    /\ StrictlyIncreasing(m_displayModes)
    /\ \A i, j \in DOMAIN m_displayModes : i # j => m_displayModes[i] # m_displayModes[j]
    /\ Range(m_displayModes) = Reported

\* a mode reported twice, with a smaller mode after it and a failed query
C37_Witness ==
  /\ s_mainWindow
  /\ Len(sdl.modes) = MaxModes
  /\ \E i \in DOMAIN sdl.modes : ~sdl.modes[i].ok
  /\ Len(m_displayModes) = 1
  /\ Len(ReportedModes(sdl.modes)) = 2

\* the same with an order to restore
C37_Unsorted ==
  /\ s_mainWindow
  /\ Len(sdl.modes) = MaxModes
  /\ \E i \in 1..(MaxModes - 1) :
       /\ sdl.modes[i].ok /\ sdl.modes[i + 1].ok
       /\ sdl.modes[i + 1].w < sdl.modes[i].w
  /\ Len(m_displayModes) = 2

(***************************************************************************)
(* Properties of the swap interval and the gamma of the window.            *)
(***************************************************************************)

SwapIntervalCall(vsync) == <<"SDL_GL_SetSwapInterval", vsync>>

\* C34: when the platform rejects the swap interval asked for and it is neither 0
\* nor 1, setVSync tries once more, with 1, and no other call is made twice; when
\* setVSync returns false m_vsync is what it was, and when it returns true m_vsync
\* is the interval the platform accepted, or the one asked for when there is no
\* window yet.
C34_VSyncFallback ==
  [][resizeCalls' = <<"setVSync">> =>
       LET vsync == returned'.arg
       IN /\ sdl'.calls =
               IF ~m_window THEN <<>>
               ELSE IF vsync \notin sdl.accepted /\ vsync \notin {0, 1}
                 THEN <<SwapIntervalCall(vsync), SwapIntervalCall(1)>>
                 ELSE <<SwapIntervalCall(vsync)>>
          /\ ~returned'.value => m_vsync' = m_vsync /\ sdl'.swapInterval = sdl.swapInterval
          /\ returned'.value =>
               IF m_window
                 THEN /\ m_vsync' = sdl'.swapInterval
                      /\ m_vsync' \in sdl.accepted
                      /\ m_vsync' = sdl'.calls[Len(sdl'.calls)][2]
                 ELSE m_vsync' = vsync]_vars

\* adaptive vsync was asked for and rejected, and 1 was taken
C34_Witness ==
  /\ m_window
  /\ returned = [call |-> "setVSync", arg |-> -1, value |-> TRUE]
  /\ sdl.calls = <<SwapIntervalCall(-1), SwapIntervalCall(1)>>
  /\ m_vsync = 1

\* the retry was rejected as well and the interval of before is kept
C34_RetryRejected ==
  /\ m_window
  /\ returned = [call |-> "setVSync", arg |-> 2, value |-> FALSE]
  /\ Len(sdl.calls) = 2
  /\ m_vsync = 0

\* the interval is cached while there is no window
C34_NoWindow ==
  /\ ~m_window
  /\ returned = [call |-> "setVSync", arg |-> 2, value |-> TRUE]
  /\ m_vsync = 2
  /\ 2 \notin sdl.accepted

\* C33: without a native window, or when the window is not fullscreen, setGamma
\* calls no gamma function of the platform, saves no ramp, caches the value and
\* returns true; when SDL_SetWindowBrightness fails it returns false and the
\* cached value is what it was.
C33_GammaOnlyFullscreen ==
  [][resizeCalls' = <<"setGamma">> =>
       /\ (~m_window \/ ~m_fullscreen) =>
            /\ sdl'.calls = <<>>
            /\ sdl'.ramp = sdl.ramp
            /\ gamma'.m_gammaOverridden = gamma.m_gammaOverridden
            /\ gamma'.m_gammaRamp = gamma.m_gammaRamp
            /\ gamma'.m_gamma = returned'.arg
            /\ returned'.value
       /\ (m_window /\ m_fullscreen /\ ~sdl.brightnessWorks) =>
            /\ <<"SDL_SetWindowBrightness", returned'.arg>> \in Range(sdl'.calls)
            /\ ~returned'.value
            /\ gamma'.m_gamma = gamma.m_gamma
            /\ sdl'.ramp = sdl.ramp]_vars

\* a gamma value was set on a window that is not fullscreen
C33_Witness ==
  /\ m_window
  /\ ~m_fullscreen
  /\ resizeCalls = <<"setGamma">>
  /\ returned = [call |-> "setGamma", arg |-> 12, value |-> TRUE]
  /\ gamma.m_gamma = 12
  /\ sdl.calls = <<>>
  /\ sdl.ramp = SystemRamp

\* the brightness call failed on a fullscreen window
C33_BrightnessFails ==
  /\ m_window
  /\ m_fullscreen
  /\ resizeCalls = <<"setGamma">>
  /\ returned = [call |-> "setGamma", arg |-> 12, value |-> FALSE]
  /\ gamma.m_gamma = DefaultGamma

\* a gamma value was set before there is a window
C33_NoWindow ==
  /\ ~m_window
  /\ m_fullscreen
  /\ returned = [call |-> "setGamma", arg |-> 12, value |-> TRUE]
  /\ gamma.m_gamma = 12

\* the ramps a step writes back with SDL_SetWindowGammaRamp
WrittenBack(log0) == {c[2] : c \in {d \in Range(log0) : d[1] = "SDL_SetWindowGammaRamp"}}

\* the ramp the display had before the window applied a gamma value
RampBeforeGamma == IF sdl.ours THEN sdl.before ELSE sdl.ramp

\* C32: the ramp restoreGamma writes back is the ramp the display had before the
\* window first applied a gamma value; while the gamma is overridden the saved
\* ramp is not read again or changed; after the ramp is written back
\* m_gammaOverridden is false.
C32_GammaRoundTrip ==
  [][/\ WrittenBack(sdl'.calls) \subseteq {RampBeforeGamma}
     /\ (gamma.m_gammaOverridden /\ gamma'.m_gammaOverridden) =>
          /\ gamma'.m_gammaRamp = gamma.m_gammaRamp
          /\ <<"SDL_GetWindowGammaRamp", 0>> \notin Range(sdl'.calls)
     /\ WrittenBack(sdl'.calls) # {} => ~gamma'.m_gammaOverridden]_vars

\* what the code keeps: the ramp written back is the one saved, which is the
\* ramp of the display at the first setGamma of a fullscreen window, since the
\* last restore, that could read it
C32_RestoresSavedRamp ==
  [][/\ WrittenBack(sdl'.calls) \subseteq {gamma.m_gammaRamp}
     /\ WrittenBack(sdl'.calls) # {} => gamma.m_gammaOverridden
     /\ (~gamma.m_gammaOverridden /\ gamma'.m_gammaOverridden) =>
          gamma'.m_gammaRamp = sdl.ramp
     /\ (gamma.m_gammaOverridden /\ gamma'.m_gammaOverridden) =>
          /\ gamma'.m_gammaRamp = gamma.m_gammaRamp
          /\ <<"SDL_GetWindowGammaRamp", 0>> \notin Range(sdl'.calls)
     /\ WrittenBack(sdl'.calls) # {} => ~gamma'.m_gammaOverridden]_vars

\* the display has the ramp of the window's gamma and no ramp is saved
C32_AppliedUnsaved ==
  /\ m_window
  /\ m_fullscreen
  /\ sdl.ours
  /\ ~gamma.m_gammaOverridden

\* a gamma ramp of the window was written back as if it were the display's
C32_WrongRampRestored ==
  /\ ~m_fullscreen
  /\ WrittenBack(sdl.calls) # {}
  /\ SystemRamp \notin WrittenBack(sdl.calls)

\* the ramp of the display was written back
C32_Restored ==
  /\ ~m_fullscreen
  /\ WrittenBack(sdl.calls) = {SystemRamp}
  /\ sdl.ramp = SystemRamp
  /\ gamma.m_gamma = 12

(***************************************************************************)
(* Properties of the vertex buffer strategies.                             *)
(***************************************************************************)

\* the strategies in the order of preference: the names that select one, what
\* it needs of the context, the usages it serves and whether the empty name may
\* select it
Strategy(names, buffer, storage, range, map, usages, default) ==
  [names |-> names, buffer |-> buffer, storage |-> storage, range |-> range,
   map |-> map, usages |-> usages, default |-> default]

Strategies ==
  <<Strategy({"persistent-orphan"}, "GLPersistentOrphanVertexBuffer",
             TRUE, TRUE, FALSE, {"Dynamic", "Stream"}, TRUE),
    Strategy({"persistent-x3"}, "GLPersistentFenceVertexBuffer(3)",
             TRUE, TRUE, FALSE, {"Stream"}, TRUE),
    Strategy({"persistent-x2"}, "GLPersistentFenceVertexBuffer(2)",
             TRUE, TRUE, FALSE, {"Stream"}, TRUE),
    Strategy({"persistent-nosync"}, "GLPersistentUnsynchronizedVertexBuffer",
             TRUE, TRUE, FALSE, {"Dynamic", "Stream"}, FALSE),
    Strategy({"maprange", "maprange+subdata"}, "GLMapRangeVertexBuffer",
             FALSE, TRUE, FALSE, Usages, TRUE),
    Strategy({"map", "map+subdata"}, "GLMapVertexBuffer",
             FALSE, FALSE, TRUE, Usages, TRUE),
    Strategy({"shadow", "shadow+subdata"}, "GLShadowVertexBuffer",
             FALSE, FALSE, FALSE, Usages, TRUE)>>

Available(s, caps) ==
  /\ s.storage => caps.bufferStorage
  /\ s.range => caps.mapBufferRange
  /\ s.map => caps.mapBuffer

\* the strategies a name can select for a usage: any for the empty name
Selects(setting, s) == IF setting = "" THEN s.default ELSE setting \in s.names

Candidates(setting, caps, usage) ==
  {i \in DOMAIN Strategies :
     /\ Selects(setting, Strategies[i])
     /\ Available(Strategies[i], caps)
     /\ usage \in Strategies[i].usages}

First(indices) == CHOOSE i \in indices : \A j \in indices : i <= j

\* the buffer the empty name gives
DefaultBuffer(caps, usage) == Strategies[First(Candidates("", caps, usage))].buffer

\* the names of the strategies the context allows
MatchedNames(caps) ==
  UNION {Strategies[i].names : i \in {j \in DOMAIN Strategies :
                                        Available(Strategies[j], caps)}}

\* what every call keeps, whatever was logged before
FallbackOfLastCall ==
  LET l == buffers.last
      candidates == Candidates(l.setting, l.caps, l.usage)
  IN l.vertex # "" =>
       /\ l.buffer \in {Strategies[i].buffer : i \in DOMAIN Strategies}
       /\ l.depth <= 1
       /\ l.depth = 1 <=> candidates = {}
       /\ candidates = {} => l.buffer = DefaultBuffer(l.caps, l.usage)
       /\ candidates # {} => l.buffer = Strategies[First(candidates)].buffer
       /\ l.logged => l.setting \notin MatchedNames(l.caps)

RECURSIVE Sum(_, _)
Sum(f, over) ==
  IF over = {} THEN 0
  ELSE LET x == CHOOSE y \in over : TRUE IN f[x] + Sum(f, over \ {x})

\* C38: createVertexBufferImpl returns a buffer whatever the capabilities, the
\* usage and the configured name; a name that is not known, or not usable with
\* the capabilities and the usage, gives the buffer of the empty name; the
\* function calls itself at most once; the warning is logged at most once in the
\* process, and only for a name that matched no strategy.
C38_StrategyFallback ==
  /\ FallbackOfLastCall
  /\ Sum(buffers.warnings, VertexTypes) <= 1

\* what holds: the warning is logged at most once for each vertex type
C38_WarnedOncePerVertexType ==
  /\ FallbackOfLastCall
  /\ \A v \in VertexTypes : buffers.warnings[v] <= 1 /\ (buffers.warnings[v] = 1 <=> buffers.warned[v])

\* a name the context does not allow gave the default buffer, with the warning
C38_FellBack ==
  /\ buffers.last.setting = "maprange"
  /\ ~buffers.last.caps.mapBufferRange
  /\ buffers.last.caps.mapBuffer
  /\ buffers.last.depth = 1
  /\ buffers.last.logged
  /\ buffers.last.buffer = "GLMapVertexBuffer"

\* a name that matched a strategy which does not serve the usage: no warning
C38_MatchedUnusable ==
  /\ buffers.last.setting = "persistent-x3"
  /\ buffers.last.usage = "Dynamic"
  /\ buffers.last.depth = 1
  /\ ~buffers.last.logged
  /\ buffers.last.buffer = "GLPersistentOrphanVertexBuffer"
  /\ \A v \in VertexTypes : ~buffers.warned[v]

\* the warning was logged for each vertex type
C38_WarnedForEachType == \A v \in VertexTypes : buffers.warnings[v] = 1

(***************************************************************************)
(* Properties of the touch input.                                          *)
(***************************************************************************)

FingersBalanced ==
  /\ touch.numFingers >= 0
  /\ touch.numFingers = 0 => touch.balance = NoClicks

\* the counts change hands only as update does it
HandedOver ==
  (\/ touch'.currentClickCount # touch.currentClickCount
   \/ touch'.currentUnclickCount # touch.currentUnclickCount
   \/ \E b \in Buttons : touch'.clickCount[b] < touch.clickCount[b]
   \/ \E b \in Buttons : touch'.unclickCount[b] < touch.unclickCount[b])
  => /\ touch'.currentClickCount = touch.clickCount
     /\ touch'.currentUnclickCount = touch.unclickCount
     /\ touch'.clickCount = NoClicks
     /\ touch'.unclickCount = NoClicks

\* C40: whatever finger-down and finger-up events of touch device 0 the backend
\* gets, numFingers is never negative, and whenever it is 0 again as many clicks
\* as unclicks were made for each button since it was last 0; update hands the
\* counts to the frame and clears them.
C40_TouchBookkeeping == []FingersBalanced /\ [][HandedOver]_vars

\* what holds: the same when no finger was on the screen before the backend got
\* its first event
C40_BalancedWhenAllSeen == touch.missed = 0 => FingersBalanced

\* the first finger is button 0 and every other finger button 1, going down and
\* coming up, and update hands the counts over
C40_ButtonsByFinger ==
  [][/\ HandedOver
     /\ (touch.attached /\ touch'.held[0] > touch.held[0]) =>
          LET b == IF touch.numFingers = 0 THEN 0 ELSE 1
          IN /\ touch'.clickCount = [touch.clickCount EXCEPT ![b] = @ + 1]
             /\ touch'.unclickCount = touch.unclickCount
             /\ touch'.numFingers = touch.numFingers + 1
     /\ (touch.attached /\ touch'.held[1] # touch.held[1]) =>
          /\ touch'.clickCount = touch.clickCount
          /\ touch'.unclickCount = touch.unclickCount
          /\ touch'.numFingers = touch.numFingers]_vars

\* a finger that was down before the backend got events is lifted
C40_NegativeFingers ==
  /\ touch.attached
  /\ touch.missed = 1
  /\ touch.held[0] = 0
  /\ touch.numFingers = -1

\* two fingers went down and came up, and update ran
C40_TwoFingers ==
  /\ touch.attached
  /\ touch.missed = 0
  /\ touch.numFingers = 0
  /\ touch.currentClickCount = [b \in Buttons |-> 1]
  /\ touch.currentUnclickCount = [b \in Buttons |-> 1]
  /\ touch.clickCount = NoClicks

====
